---- MODULE Spec2Model ----
(***************************************************************************)
(* Model of the map-rendering scripts of the Canadian-Governance           *)
(* repository: the six script variants of src/unnamed/part_000             *)
(*   variant 1  plot_2x2_panels, single figure legend       (lines 1-236)  *)
(*   variant 2  plot_2x2_panels, coordinate report          (238-649)      *)
(*   variant 3  plot_2x2_panels, per-panel legends          (651-943)      *)
(*   variant 4  plot_2x2_panels, legend of panel 0          (945-1241)     *)
(*   variant 5  plot_1x2_panels                             (1243-1675)    *)
(*   variant 6  plot_map_with_icons_below_labels            (1677-1975)    *)
(*                                                                         *)
(* Coordinates are exact: every length is an integer number of 1/200 map   *)
(* units and every fraction (pad, north_extra, the Atlantic offset         *)
(* fractions) an integer number of thousandths, so that the products and   *)
(* the multipliers 1.0, 1.5, 0.5 of the source are computed without        *)
(* rounding.  A polygon is represented by what the scripts read of it: its *)
(* centroid and its bounding box.                                          *)
(***************************************************************************)
EXTENDS Integers, Sequences, FiniteSets, TLC

\* number of model length units in one map unit
Unit == 2 * 100
\* denominator of the fractions (thousandths)
FracDen == 10 * 100

Variants == 1..6
PanelVariants == 1..5
ReportVariants == {2, 5}

(***************************************************************************)
(* Python values that can be stored under 'xy', 'label_offset',            *)
(* 'line_start' or in atlantic_manual_offsets.                             *)
(***************************************************************************)
Num(n) == [t |-> "num", v |-> n]
\* a string such as "12.5" that float() converts
NumStr(n) == [t |-> "numstr", v |-> n]
\* a string that float() rejects
Word == [t |-> "word", v |-> 0]

\* the key is not in the dict
Absent == [k |-> "absent", e |-> <<>>]
PyNone == [k |-> "none", e |-> <<>>]
Tuple(s) == [k |-> "tuple", e |-> s]
\* an unordered, non-indexable container (set) holding the elements of s
PySet(s) == [k |-> "set", e |-> s]
\* a bare number: no __iter__
Scalar(n) == [k |-> "scalar", e |-> <<Num(n)>>]
Pair(x, y) == Tuple(<<Num(x), Num(y)>>)
\* True and False
PyBool(b) == [k |-> "bool", e |-> <<Num(IF b THEN 1 ELSE 0)>>]

\* the truth value Python gives a stored value
Truthy(val) ==
    IF val.k \in {"absent", "none"} THEN FALSE
    ELSE IF val.k \in {"bool", "scalar"} THEN val.e[1].v # 0
    ELSE Len(val.e) > 0

\* float(e) succeeds
FloatOk(e) == e.t \in {"num", "numstr"}

\* validate_xy as written in the variants 1 to 5: indexes xy[0], xy[1]
validate_xy_index(xy) ==
    IF xy.k \in {"absent", "none"} THEN FALSE
    ELSE IF xy.k \in {"scalar", "bool"} THEN FALSE
    ELSE IF Len(xy.e) # 2 THEN FALSE
    ELSE IF xy.k = "set" THEN FALSE
    ELSE FloatOk(xy.e[1]) /\ FloatOk(xy.e[2])

\* validate_xy as written in variant 6: unpacks x0, y0 = xy
validate_xy_unpack(xy) ==
    IF xy.k \in {"absent", "none"} THEN FALSE
    ELSE IF xy.k \in {"scalar", "bool"} THEN FALSE
    ELSE IF Len(xy.e) # 2 THEN FALSE
    ELSE FloatOk(xy.e[1]) /\ FloatOk(xy.e[2])

validate_xy(v, xy) == IF v = 6 THEN validate_xy_unpack(xy) ELSE validate_xy_index(xy)

\* a + b of Python on two elements: numbers add, anything else with a
\* number raises TypeError, two strings concatenate
CanAdd(a, b) == (a.t = "num" /\ b.t = "num") \/ (a.t # "num" /\ b.t # "num")
Add(a, b) == IF a.t = "num" /\ b.t = "num" THEN Num(a.v + b.v) ELSE Word

(***************************************************************************)
(* The dataset and the static acronym lookup tables.                       *)
(***************************************************************************)
NameNL == "Newfoundland and Labrador / Terre-Neuve-et-Labrador"
NamePE == "Prince Edward Island / Ile-du-Prince-Edouard"
NameNS == "Nova Scotia / Nouvelle-Ecosse"
NameNB == "New Brunswick / Nouveau-Brunswick"
NameQC == "Quebec / Quebec"
NameBC == "British Columbia / Colombie-Britannique"
NameNT == "Northwest Territories / Territoires du Nord-Ouest"
\* a PRNAME that is not a key of the lookup table
NameOther == "Greenland"

\* the acronym of Prince Edward Island in each variant's lookup table
PEAcronym(v) == IF v \in {1, 6} THEN "PE" ELSE "PEI"

\* province_acronyms of variant v; "" stands for the NaN that
\* Series.map leaves for a name that is not a key
NoAcronym == ""
province_acronyms(v, name) ==
    CASE name = NameNL -> "NL"
      [] name = NamePE -> PEAcronym(v)
      [] name = NameNS -> "NS"
      [] name = NameNB -> "NB"
      [] name = NameQC -> "QC"
      [] name = "Ontario" -> "ON"
      [] name = "Manitoba" -> "MB"
      [] name = "Saskatchewan" -> "SK"
      [] name = "Alberta" -> "AB"
      [] name = NameBC -> "BC"
      [] name = "Yukon" -> "YT"
      [] name = NameNT -> "NT"
      [] name = "Nunavut" -> "NU"
      [] OTHER -> NoAcronym

\* atlantic_set of variant v
atlantic_set(v) == IF v \in {2, 5} THEN {"NL", "PEI", "NS", "NB"} ELSE {"NL", "PE", "NS", "NB"}

\* a dataset row: PRNAME, centroid and bounding box of the geometry
Row(name, cx, cy, w, h) ==
    [name |-> name, cx |-> cx * Unit, cy |-> cy * Unit,
     x0 |-> (cx - w) * Unit, y0 |-> (cy - h) * Unit,
     x1 |-> (cx + w) * Unit, y1 |-> (cy + h) * Unit]

\* seven provinces of the map, one of them with a name the table lacks
GdfMap ==
    << Row(NameBC, 4100, 2000, 100, 100),
       Row("Ontario", 4600, 1600, 200, 300),
       Row(NameNL, 5000, 2000, 100, 200),
       Row(NamePE, 4900, 1300, 20, 10),
       Row(NameNS, 4950, 1200, 50, 50),
       Row(NameNB, 4800, 1250, 40, 50),
       Row(NameOther, 4500, 2900, 100, 100) >>

\* the scenario of the specification: NL with centroid (500, 1000) in a
\* dataset whose bounds span 1000 by 2000
GdfExample ==
    << Row(NameNL, 500, 1000, 100, 100),
       Row("Ontario", 500, 1000, 500, 1000) >>

\* a dataset reduced to one point: both spans are zero
GdfPoint == << Row("Ontario", 300, 700, 0, 0) >>

Datasets == {GdfMap, GdfExample, GdfPoint}

(***************************************************************************)
(* Global extent and Atlantic offsets, computed once per call.             *)
(***************************************************************************)
RowIdx(gdf) == 1..Len(gdf)
MinOf(S) == CHOOSE m \in S : \A n \in S : m <= n
MaxOf(S) == CHOOSE m \in S : \A n \in S : m >= n

\* gdf.total_bounds: xmin, ymin, xmax, ymax over every row
total_bounds(gdf) ==
    [xmin |-> MinOf({gdf[i].x0 : i \in RowIdx(gdf)}),
     ymin |-> MinOf({gdf[i].y0 : i \in RowIdx(gdf)}),
     xmax |-> MaxOf({gdf[i].x1 : i \in RowIdx(gdf)}),
     ymax |-> MaxOf({gdf[i].y1 : i \in RowIdx(gdf)})]

\* the literal 1.0 that replaces a zero span
DegenerateSpan == Unit
overall_xspan(gdf) ==
    LET b == total_bounds(gdf)
    IN  IF b.xmax - b.xmin # 0 THEN b.xmax - b.xmin ELSE DegenerateSpan
overall_yspan(gdf) ==
    LET b == total_bounds(gdf)
    IN  IF b.ymax - b.ymin # 0 THEN b.ymax - b.ymin ELSE DegenerateSpan

\* span * fraction, the fraction in thousandths
Frac(span, f) == (span * f) \div FracDen

x_off_global(a) == Frac(overall_xspan(a.gdf), a.atlantic_offset_x_frac)
y_off_global(a) == Frac(overall_yspan(a.gdf), a.atlantic_offset_y_frac)

\* the padded extent without the northward margin
PanelExtent_NoNorth(a) ==
    LET b == total_bounds(a.gdf)
        xpad == Frac(overall_xspan(a.gdf), a.pad)
        ypad == Frac(overall_yspan(a.gdf), a.pad)
    IN  [xmin_p |-> b.xmin - xpad,
         xmax_p |-> b.xmax + xpad,
         ymin_p |-> b.ymin - ypad,
         ymax_p |-> b.ymax + ypad]

\* the padded extent of the panel functions (variants 1 to 5)
PanelExtent(a) ==
    LET b == total_bounds(a.gdf)
        xpad == Frac(overall_xspan(a.gdf), a.pad)
        ypad == Frac(overall_yspan(a.gdf), a.pad)
    IN  [xmin_p |-> b.xmin - xpad,
         xmax_p |-> b.xmax + xpad,
         ymin_p |-> b.ymin - ypad,
         ymax_p |-> b.ymax + ypad + Frac(overall_yspan(a.gdf), a.north_extra)]

(***************************************************************************)
(* Label placement.                                                        *)
(***************************************************************************)
\* the acronym column: provinces['ACRONYM'] = provinces['PRNAME'].map(...)
Acronym(v, row) == province_acronyms(v, row.name)
\* the filter dropped: every row counts as named
NamedRows_EveryRow(v, gdf) == RowIdx(gdf)

\* gdf[gdf['ACRONYM'].notna()]: indices of the named rows, in row order
NamedRows(v, gdf) == {i \in RowIdx(gdf) : Acronym(v, gdf[i]) # NoAcronym}

\* the Atlantic branch with the PE / PEI case lost: the island falls into
\* the final else and gets the multiplier of NB
AtlanticTwiceMultiplier_NoIsland(v, acr) ==
    IF acr = "NL" THEN 2
    ELSE IF acr = "NS" THEN -1
    ELSE -2

\* twice the multiplier applied to y_off_global in the Atlantic branch of
\* variant v: NL +1.0, PE or PEI +1.5, NS -0.5, everything else (NB) -1.0
AtlanticTwiceMultiplier(v, acr) ==
    IF acr = "NL" THEN 2
    ELSE IF acr = (IF v \in {2, 5} THEN "PEI" ELSE "PE") THEN 3
    ELSE IF acr = "NS" THEN -1
    ELSE -2

\* the Atlantic branch: (cx + x_off, cy + m * y_off)
AtlanticPoint(a, acr, row) ==
    << Num(row.cx + x_off_global(a)),
       Num(row.cy + (AtlanticTwiceMultiplier(a.variant, acr) * y_off_global(a)) \div 2) >>

\* the lower left corner of the bounds taken for the centroid
CentroidPoint_Corner(row) == << Num(row.x0), Num(row.y0) >>

CentroidPoint(row) == << Num(row.cx), Num(row.cy) >>

\* the membership tests that guard the use of per_province[acr][key]:
\* variants 2 and 5 test the key in per_province[acr], the others test it
\* in per_province itself (variant 6 does so for 'xy' only)
KeyGuard(v, pp, acr, key) ==
    /\ acr \in DOMAIN pp
    /\ IF v \in {2, 5} \/ (v = 6 /\ key = "label_offset")
       THEN pp[acr][key] # Absent
       ELSE key \in DOMAIN pp

\* per_province[acr][key] raises KeyError when the entry lacks the key
Lookup(pp, acr, key) == pp[acr][key]

\* first placement rule: the coordinate override is taken
UsesOverride(a, acr) ==
    /\ KeyGuard(a.variant, a.per_province, acr, "xy")
    /\ Lookup(a.per_province, acr, "xy") # Absent
    /\ validate_xy(a.variant, Lookup(a.per_province, acr, "xy"))

\* the guard passes but the subscript per_province[acr]['xy'] fails
OverrideKeyError(a, acr) ==
    /\ KeyGuard(a.variant, a.per_province, acr, "xy")
    /\ Lookup(a.per_province, acr, "xy") = Absent

\* second placement rule: the manual offset table entry is taken
UsesManual(a, acr) ==
    /\ acr \in DOMAIN a.atlantic_manual_offsets
    /\ validate_xy(a.variant, a.atlantic_manual_offsets[acr])

\* the base point and the rule that produced it
BasePoint(a, acr, row) ==
    IF OverrideKeyError(a, acr) THEN [p |-> CentroidPoint(row), rule |-> "KeyError"]
    ELSE IF UsesOverride(a, acr)
         THEN [p |-> Lookup(a.per_province, acr, "xy").e, rule |-> "override"]
    ELSE IF UsesManual(a, acr)
         THEN [p |-> a.atlantic_manual_offsets[acr].e, rule |-> "manual"]
    ELSE IF acr \in atlantic_set(a.variant)
         THEN [p |-> AtlanticPoint(a, acr, row), rule |-> "atlantic"]
    ELSE [p |-> CentroidPoint(row), rule |-> "centroid"]

\* the additive offset is applied
UsesOffset(a, acr) ==
    /\ KeyGuard(a.variant, a.per_province, acr, "label_offset")
    /\ Lookup(a.per_province, acr, "label_offset") # Absent
    /\ validate_xy(a.variant, Lookup(a.per_province, acr, "label_offset"))

OffsetKeyError(a, acr) ==
    /\ KeyGuard(a.variant, a.per_province, acr, "label_offset")
    /\ Lookup(a.per_province, acr, "label_offset") = Absent

\* label_x += dx; label_y += dy
ApplyOffset(p, d) == << Add(p[1], d[1]), Add(p[2], d[2]) >>

\* the resolved label point of one named row: its coordinates, the rule
\* of the base point, whether the offset was added, and the exception
\* raised on the way ("none" when the point is produced)
ResolveLabel(a, acr, row) ==
    LET base == BasePoint(a, acr, row)
        d == Lookup(a.per_province, acr, "label_offset").e
    IN  IF base.rule = "KeyError"
        THEN [p |-> base.p, rule |-> base.rule, offset |-> FALSE, exc |-> "KeyError"]
        ELSE IF OffsetKeyError(a, acr)
        THEN [p |-> base.p, rule |-> base.rule, offset |-> FALSE, exc |-> "KeyError"]
        ELSE IF ~UsesOffset(a, acr)
        THEN [p |-> base.p, rule |-> base.rule, offset |-> FALSE, exc |-> "none"]
        ELSE IF ~CanAdd(base.p[1], d[1])
        THEN [p |-> base.p, rule |-> base.rule, offset |-> FALSE, exc |-> "TypeError"]
        ELSE IF ~CanAdd(base.p[2], d[2])
        THEN [p |-> << Add(base.p[1], d[1]), base.p[2] >>, rule |-> base.rule,
              offset |-> FALSE, exc |-> "TypeError"]
        ELSE [p |-> ApplyOffset(base.p, d), rule |-> base.rule, offset |-> TRUE, exc |-> "none"]

(***************************************************************************)
(* Per-panel styling: colour, line-style and text-colour maps.             *)
(***************************************************************************)
\* a legend key: the label text and the number of trailing blanks that
\* make otherwise equal keys distinct ("In force" and "In force ")
Label(text, trail) == [text |-> text, trail |-> trail]
\* label.strip()
Strip(label) == label.text

\* settings of one legend entry; "absent" marks a key the dict lacks
LegendEntry(label, color, acrs, linestyle, text_color, is_subtitle) ==
    [label |-> label, color |-> color, acronyms |-> acrs, linestyle |-> linestyle,
     text_color |-> text_color, is_subtitle |-> is_subtitle]

\* settings.get(key, default)
GetOr(value, default) == IF value = "absent" THEN default ELSE value

\* the neutral fill of variant v
NeutralFill(v) == IF v = 1 THEN "#D3D3D3" ELSE "white"

\* the default colour groups of variants 1 and 6
GroupColor(v, acr) ==
    IF acr \in {"AB", "SK", "NL", "NB", "NS"} THEN "#808080"
    ELSE IF acr \in {"BC", "QC"} THEN "#006400"
    ELSE IF acr \in {"ON"} THEN "#8FBC8F"
    ELSE NeutralFill(v)

\* the colour-map loop with its test of is_subtitle left out
Assigns_Headings(v, entry) == TRUE

\* entries of a legend that assign styles: plot_1x2_panels skips headings
Assigns(v, entry) == ~(v = 5 /\ entry.is_subtitle)

\* indices of the entries that assign a style to acr
Listing(v, items, acr) ==
    {i \in 1..Len(items) : Assigns(v, items[i]) /\ acr \in items[i].acronyms}

\* the entry whose assignment survives the loop over legend_items.items():
\* assignments are made in order, so the last one stays
\* the first entry that lists acr kept, later ones ignored
Winner_First(v, items, acr) == MinOf(Listing(v, items, acr))

Winner(v, items, acr) == MaxOf(Listing(v, items, acr))

\* the acronyms present in the dataset
GdfAcronyms(v, gdf) == {Acronym(v, gdf[i]) : i \in NamedRows(v, gdf)}

\* legend_items of the panel: panel_legend_items.get(panel_idx, {}) in the
\* per-panel variants, the single legend_items argument in variants 1 and 6
PanelLegendItems(a, panel_idx) ==
    IF a.variant \in {1, 6} THEN a.legend_items
    ELSE IF panel_idx \in DOMAIN a.panel_legend_items THEN a.panel_legend_items[panel_idx]
    ELSE << >>

\* acr_to_color.get(acr, default) after the map is built
acr_to_color(a, panel_idx, acr) ==
    LET v == a.variant
        items == PanelLegendItems(a, panel_idx)
    IN  IF Listing(v, items, acr) # {} THEN items[Winner(v, items, acr)].color
        ELSE IF v \in {1, 6} /\ acr \in GdfAcronyms(v, a.gdf) THEN GroupColor(v, acr)
        ELSE NeutralFill(v)

acr_to_linestyle(a, panel_idx, acr) ==
    LET v == a.variant
        items == PanelLegendItems(a, panel_idx)
    IN  IF v \notin {1, 6} /\ Listing(v, items, acr) # {}
        THEN GetOr(items[Winner(v, items, acr)].linestyle, "solid")
        ELSE "solid"

acr_to_text_color(a, panel_idx, acr) ==
    LET v == a.variant
        items == PanelLegendItems(a, panel_idx)
    IN  IF v \in {2, 5} /\ Listing(v, items, acr) # {}
        THEN GetOr(items[Winner(v, items, acr)].text_color, "black")
        ELSE "black"

\* the selection without the test of the panel's acronym set: every
\* named province is filled with its mapped style
Selected_EveryNamed(a, panel_acronyms, i) == Acronym(a.variant, a.gdf[i]) # NoAcronym

\* the province of row i is one the panel fills with its mapped style
Selected(a, panel_acronyms, i) ==
    LET acr == Acronym(a.variant, a.gdf[i])
    IN  IF a.variant = 6 THEN TRUE
        ELSE acr # NoAcronym /\ acr \in panel_acronyms

\* fill_color and edge_style of every row of gdf_plot
Fills(a, panel_idx, panel_acronyms) ==
    [i \in RowIdx(a.gdf) |->
        LET acr == Acronym(a.variant, a.gdf[i])
        IN  IF Selected(a, panel_acronyms, i) /\ acr # NoAcronym
            THEN [color |-> acr_to_color(a, panel_idx, acr),
                  style |-> acr_to_linestyle(a, panel_idx, acr), zorder |-> 2]
            ELSE [color |-> NeutralFill(a.variant), style |-> "solid", zorder |-> 2]]

(***************************************************************************)
(* Legends.                                                                *)
(***************************************************************************)
Handle(label, color, style, bold) ==
    [label |-> label, color |-> color, style |-> style, bold |-> bold]

\* the handles of a per-panel legend after the first n entries;
\* variants 2 and 5 strip the label and skip a label already seen,
\* variant 5 renders a heading as a swatch-less bold row, preceded by a
\* spacer row when the heading is "Some Activities"
RECURSIVE LegendHandles(_, _, _)
LegendHandles(v, items, n) ==
    IF n = 0 THEN << >>
    ELSE LET prev == LegendHandles(v, items, n - 1)
             it == items[n]
             clean == Label(Strip(it.label), 0)
             seen == {Strip(items[j].label) : j \in {k \in 1..(n - 1) : Assigns(v, items[k])}}
             patch == Handle(clean, it.color, GetOr(it.linestyle, "solid"), FALSE)
         IN  IF v = 3
             THEN Append(prev, Handle(it.label, it.color, GetOr(it.linestyle, "solid"), FALSE))
             ELSE IF v = 5 /\ it.is_subtitle
             THEN (IF Strip(it.label) = "Some Activities"
                   THEN Append(prev, Handle(Label("", 1), "none", "solid", FALSE))
                   ELSE prev) \o << Handle(clean, "none", "solid", TRUE) >>
             ELSE IF Strip(it.label) \in seen THEN prev
             ELSE Append(prev, patch)

\* the panel gets a legend
\* the legend test without panel_idx != 3
HasPanelLegend_EveryPanel(a, panel_idx) ==
    /\ a.variant \in {2, 3, 5}
    /\ Len(PanelLegendItems(a, panel_idx)) > 0

HasPanelLegend(a, panel_idx) ==
    /\ a.variant \in {2, 3, 5}
    /\ Len(PanelLegendItems(a, panel_idx)) > 0
    /\ (a.variant \in {2, 3} => panel_idx # 3)

PanelLegend(a, panel_idx) ==
    IF HasPanelLegend(a, panel_idx)
    THEN LegendHandles(a.variant, PanelLegendItems(a, panel_idx),
                       Len(PanelLegendItems(a, panel_idx)))
    ELSE << >>

\* the handles of the single legend of variants 1 and 6: one patch per
\* entry of legend_items, or the four default groups
DefaultHandles(v) ==
    << Handle(Label("AB / SK / NL / NB / NS", 0), "#808080", "solid", FALSE),
       Handle(Label("BC / QC", 0), "#006400", "solid", FALSE),
       Handle(Label("ON", 0), "#8FBC8F", "solid", FALSE),
       Handle(Label("Other", 0), NeutralFill(v), "solid", FALSE) >>

RawHandles(items) ==
    [i \in 1..Len(items) |->
        Handle(items[i].label, items[i].color, GetOr(items[i].linestyle, "solid"), FALSE)]

\* the legend drawn on the figure (variants 1 and 4) or on the single
\* axes (variant 6)
FigureLegend(a) ==
    IF a.variant \in {1, 6}
    THEN (IF Len(a.legend_items) > 0
          THEN [i \in 1..Len(a.legend_items) |->
                   Handle(a.legend_items[i].label, a.legend_items[i].color, "solid", FALSE)]
          ELSE DefaultHandles(a.variant))
    ELSE IF a.variant = 4 /\ 0 \in DOMAIN a.panel_legend_items
                          /\ Len(a.panel_legend_items[0]) > 0
    THEN RawHandles(a.panel_legend_items[0])
    ELSE << >>

(***************************************************************************)
(* The single-panel map of variant 6.                                      *)
(***************************************************************************)
FireIcon == "Figures/fire.png"
WarnIcon == "Figures/warning.png"

\* selected: the named rows, or the rows whose acronym is a target
SelectedRows(a) ==
    IF ~a.target_acronyms.given THEN NamedRows(a.variant, a.gdf)
    ELSE {i \in RowIdx(a.gdf) : Acronym(a.variant, a.gdf[i]) \in a.target_acronyms.acrs}

\* the extent of variant 6: the bounds of the selected rows, padded
\* (no replacement of a zero span here)
MapExtent(a) ==
    LET S == SelectedRows(a)
        xmin == MinOf({a.gdf[i].x0 : i \in S})
        ymin == MinOf({a.gdf[i].y0 : i \in S})
        xmax == MaxOf({a.gdf[i].x1 : i \in S})
        ymax == MaxOf({a.gdf[i].y1 : i \in S})
    IN  [xmin_p |-> xmin - Frac(xmax - xmin, a.pad),
         xmax_p |-> xmax + Frac(xmax - xmin, a.pad),
         ymin_p |-> ymin - Frac(ymax - ymin, a.pad),
         ymax_p |-> ymax + Frac(ymax - ymin, a.pad) + Frac(ymax - ymin, a.north_extra)]

Extent(a) == IF a.variant = 6 THEN MapExtent(a) ELSE PanelExtent(a)

\* the icons stacked below a label drawn at the numeric point p
Icons(a, acr, p) ==
    LET icon_x == p[1].v + Frac(overall_xspan(a.gdf), a.icon_nudge_x_frac)
        gap == Frac(overall_yspan(a.gdf), a.icon_vertical_gap_frac)
        y_fire == p[2].v - gap
        has_fire == acr \in {"BC", "AB", "SK", "MB"}
        has_warn == acr \in {"BC", "ON"}
    IN  (IF has_fire THEN << [icon |-> "fire", x |-> icon_x, y |-> y_fire, zorder |-> 11] >>
         ELSE << >>)
        \o (IF has_warn
            THEN << [icon |-> "warning", x |-> icon_x,
                     y |-> IF has_fire THEN y_fire - gap ELSE y_fire, zorder |-> 12] >>
            ELSE << >>)

(***************************************************************************)
(* The label loop of one panel and the coordinate report.                  *)
(***************************************************************************)
\* a threshold that a displacement of exactly 1000 map units exceeds
LeaderThreshold_Inclusive == 1000 * Unit - 1

\* the map-unit threshold above which a leader line is drawn
LeaderThreshold == 1000 * Unit

Abs(n) == IF n < 0 THEN -n ELSE n

IsNum(p) == p[1].t = "num" /\ p[2].t = "num"

\* per_province.get(acr, {}).get(key, default)
EntryGet(pp, acr, key, default) ==
    IF acr \in DOMAIN pp /\ pp[acr][key] # Absent THEN pp[acr][key] ELSE default

\* the leader-line step of variants 2 and 5 for a label resolved at p:
\* the anchor, whether the line is drawn, and the exception raised when
\* a coordinate is not a number
Leader(a, acr, row, p) ==
    LET line_start == EntryGet(a.per_province, acr, "line_start", PyNone)
        anchor == IF Truthy(line_start) /\ validate_xy(a.variant, line_start)
                  THEN line_start.e ELSE CentroidPoint(row)
    IN  IF ~(a.variant \in {2, 5}
             /\ Truthy(EntryGet(a.per_province, acr, "leader_line", PyBool(FALSE))))
        THEN [drawn |-> FALSE, from |-> CentroidPoint(row), exc |-> "none"]
        ELSE IF ~IsNum(p) \/ ~IsNum(anchor)
        THEN [drawn |-> FALSE, from |-> anchor, exc |-> "TypeError"]
        ELSE [drawn |-> Abs(p[1].v - anchor[1].v) > LeaderThreshold
                        \/ Abs(p[2].v - anchor[2].v) > LeaderThreshold,
              from |-> anchor, exc |-> "none"]

\* default of the bbox flag: True in variants 1 and 6, label_bbox otherwise
BboxDefault(a) == IF a.variant \in {1, 6} THEN PyBool(TRUE) ELSE PyBool(a.label_bbox)

\* default font size of the labels
DefaultFontsize(v) == IF v = 6 THEN 11 ELSE 10

\* the text drawn for one row
LabelText(a, panel_idx, acr, p) ==
    [acr |-> acr, p |-> p,
     color |-> acr_to_text_color(a, panel_idx, acr),
     fontsize |-> EntryGet(a.per_province, acr, "fontsize",
                           Scalar(DefaultFontsize(a.variant))).e[1].v,
     bbox |-> Truthy(EntryGet(a.per_province, acr, "bbox", BboxDefault(a))),
     zorder |-> 5]

\* the label loop over the rows 1..n of gdf[gdf['ACRONYM'].notna()]:
\* the texts, leader lines and icons drawn, and the exception that ended
\* it (variant 6 adds the icon gap to the label coordinates after the
\* text is drawn, which raises TypeError on a string)
RECURSIVE LabelLoop(_, _, _)
LabelLoop(a, panel_idx, n) ==
    IF n = 0 THEN [labels |-> << >>, leaders |-> << >>, icons |-> << >>, exc |-> "none"]
    ELSE LET prev == LabelLoop(a, panel_idx, n - 1)
             row == a.gdf[n]
             acr == Acronym(a.variant, row)
             r == ResolveLabel(a, acr, row)
             l == Leader(a, acr, row, r.p)
         IN  IF prev.exc # "none" \/ n \notin NamedRows(a.variant, a.gdf) THEN prev
             ELSE IF r.exc # "none" THEN [prev EXCEPT !.exc = r.exc]
             ELSE IF l.exc # "none" THEN [prev EXCEPT !.exc = l.exc]
             ELSE [labels |-> Append(prev.labels, LabelText(a, panel_idx, acr, r.p)),
                   leaders |-> IF l.drawn
                               THEN Append(prev.leaders,
                                           [acr |-> acr, from |-> l.from, to |-> r.p, zorder |-> 4])
                               ELSE prev.leaders,
                   icons |-> IF a.variant = 6 /\ IsNum(r.p)
                             THEN prev.icons \o Icons(a, acr, r.p) ELSE prev.icons,
                   exc |-> IF a.variant = 6 /\ ~IsNum(r.p) THEN "TypeError" ELSE "none"]

\* the format code 12.1f
Hundredths_OneDecimal(v) == ((v + 10) \div 20) * 10

\* the format code 12.2f on a length v: the number of hundredths of a
\* map unit printed, the nearest one, the even one of two equally near
Hundredths(v) ==
    LET per == Unit \div 100
        q == v \div per
    IN  IF 2 * (v % per) < per THEN q
        ELSE IF 2 * (v % per) > per THEN q + 1
        ELSE IF q % 2 = 0 THEN q ELSE q + 1

\* the report loop of variants 2 and 5 over the rows 1..n: the lines
\* printed, and the exception that ended it (the format code 12.2f
\* rejects a string with ValueError)
RECURSIVE ReportLoop(_, _)
ReportLoop(a, n) ==
    IF n = 0 THEN [lines |-> << >>, exc |-> "none"]
    ELSE LET prev == ReportLoop(a, n - 1)
             row == a.gdf[n]
             acr == Acronym(a.variant, row)
             r == ResolveLabel(a, acr, row)
         IN  IF prev.exc # "none" \/ n \notin NamedRows(a.variant, a.gdf) THEN prev
             ELSE IF r.exc # "none" THEN [prev EXCEPT !.exc = r.exc]
             ELSE IF ~IsNum(r.p) THEN [prev EXCEPT !.exc = "ValueError"]
             ELSE [lines |-> Append(prev.lines,
                                    [acr |-> acr, x |-> Hundredths(r.p[1].v),
                                     y |-> Hundredths(r.p[2].v), rule |-> r.rule,
                                     offset |-> r.offset]),
                   exc |-> "none"]

(***************************************************************************)
(* Arguments of a call.                                                    *)
(***************************************************************************)
NoPath == ""
\* target_acronyms=None and target_acronyms=[...]
TargetNone == [given |-> FALSE, acrs |-> {}]
Targets(S) == [given |-> TRUE, acrs |-> S]

\* one per_province entry; Absent marks a key the entry lacks
Entry(xy, label_offset, leader_line, line_start, fontsize, bbox) ==
    [xy |-> xy, label_offset |-> label_offset, leader_line |-> leader_line,
     line_start |-> line_start, fontsize |-> fontsize, bbox |-> bbox]

EmptyTable == [x \in {} |-> Absent]
EmptyLegends == [x \in {} |-> << >>]
PanelDef(title, acrs) == [title |-> title, acronyms |-> acrs]

\* the parameter defaults of the function of variant v (fractions in
\* thousandths)
DefaultArgs(v) ==
    [variant |-> v,
     gdf |-> GdfMap,
     panel_definitions |-> << >>,
     pad |-> 40,
     north_extra |-> IF v = 6 THEN 80 ELSE 90,
     atlantic_offset_x_frac |-> 60,
     atlantic_offset_y_frac |-> 30,
     atlantic_manual_offsets |-> EmptyTable,
     per_province |-> EmptyTable,
     panel_legend_items |-> EmptyLegends,
     legend_items |-> << >>,
     label_bbox |-> FALSE,
     save_path |-> NoPath,
     nrows |-> IF v = 5 THEN 1 ELSE 2,
     ncols |-> 2,
     fire_icon_path |-> FireIcon,
     warn_icon_path |-> WarnIcon,
     target_acronyms |-> TargetNone,
     icon_nudge_x_frac |-> 0,
     icon_vertical_gap_frac |-> 20,
     icon_zoom_mode |-> "pct"]

\* the grid size with the 2x2 constant left in plot_1x2_panels
GridSize_Fixed(a) == 4

\* the number of panels the grid of the call holds
GridSize(a) == IF a.variant = 5 THEN a.nrows * a.ncols ELSE 4

(***************************************************************************)
(* The calls the model makes.                                              *)
(***************************************************************************)
\* values tried under 'xy', 'label_offset' and in atlantic_manual_offsets:
\* missing, None, a numeric pair, a wrong length, non-numeric strings,
\* numeric strings, a bare number, a two-element set
GoodXY == Pair(4300 * Unit, 2500 * Unit)
GoodOffset == Pair(30 * Unit, -20 * Unit)
GoodManual == Pair(5200 * Unit, 1500 * Unit)
\* an offset of an eighth of a map unit
FineOffset == Pair(Unit \div 8, 0)

WrongLength == Tuple(<< Num(1), Num(2), Num(3) >>)
NonNumeric == Tuple(<< Word, Word >>)
NumericStrings == Tuple(<< NumStr(1), NumStr(2) >>)
BadValues == {PyNone, WrongLength, NonNumeric}
XYValues == {Absent, GoodXY, NumericStrings, Scalar(5)} \cup BadValues
OffsetValues == {Absent, GoodOffset, NumericStrings} \cup BadValues
ManualValues == {Absent, GoodManual, PySet(<< Num(7), Num(9) >>)} \cup BadValues

\* no leader line
NoLeader == << PyBool(FALSE), Absent >>

\* the leader-line settings tried in the variants that draw leader lines
LeaderValues ==
    { << PyBool(TRUE), Absent >>,
      << PyBool(TRUE), Pair(4950 * Unit, 1250 * Unit) >>,
      << PyBool(TRUE), Pair(3300 * Unit, 2500 * Unit) >>,
      << PyBool(TRUE), NonNumeric >> }

\* the acronyms whose entries the label calls of variant v vary: two
\* Atlantic provinces, one of them Prince Edward Island under the
\* acronym of the variant's lookup table, and one other province
FocusAcronyms(v) == {"NL", PEAcronym(v), "ON"}

\* the panel definitions of the scripts
Panels2x2 ==
    << PanelDef("Forestry Professional Regulatory Organizations",
                {"BC", "AB", "SK", "ON", "QC", "NL", "NS", "NB"}),
       PanelDef("Apprenticeship and Skilled Trades Agencies", {"BC", "ON", "QC", "NS", "NB"}),
       PanelDef("International Society of Arboriculture Chapters",
                {"BC", "AB", "SK", "MB", "ON", "QC", "NL", "PEI", "NS", "NB"}),
       PanelDef("Other Arboricultural Professional Associations", {"BC", "ON", "MB"}) >>

Panels1x2 ==
    << PanelDef("Right to Title", {"BC", "AB", "SK", "ON", "QC", "NL", "NS", "NB"}),
       PanelDef("Right to Practice", {"BC", "ON", "QC", "NS", "NB", "MB", "SK"}) >>

\* panel_legend_items of the second script, panels 0 to 3
Legends2x2 ==
    [i \in 0..3 |->
       CASE i = 0 ->
            << LegendEntry(Label("Engaged in urban forestry", 0), "#006400",
                           {"BC", "ON", "QC"}, "absent", "white", FALSE),
               LegendEntry(Label("Not engaged in urban forestry", 0), "#8FBC8F",
                           {"AB", "SK", "NL", "NS", "NB"}, "absent", "black", FALSE) >>
         [] i = 1 ->
            << LegendEntry(Label("In force", 0), "#006400", {"NS", "NB"}, "absent", "black", FALSE),
               LegendEntry(Label("In force", 1), "#006400", {"BC", "ON"}, "absent", "white", FALSE),
               LegendEntry(Label("Coming into force", 0), "#8FBC8F", {"QC"}, "absent", "black",
                           FALSE) >>
         [] i = 2 ->
            << LegendEntry(Label("Pacific Northwest", 0), "#009DAE", {"BC"}, "absent", "white",
                           FALSE),
               LegendEntry(Label("Ontario", 0), "#D02E2E", {"ON"}, "absent", "white", FALSE),
               LegendEntry(Label("Atlantic", 0), "#4A90E2", {"NL", "PEI", "NS", "NB"}, "absent",
                           "black", FALSE) >>
         [] OTHER ->
            << LegendEntry(Label("Dark green (BC)", 0), "#006400", {"BC", "MB", "ON"}, "absent",
                           "white", FALSE) >> ]

\* panel_legend_items of the plot_1x2_panels script
Legends1x2 ==
    [i \in 0..1 |->
       IF i = 0
       THEN << LegendEntry(Label("Registered Professional Forester", 0), "#006400",
                           {"BC", "ON", "QC", "AB", "SK"}, "absent", "white", FALSE),
               LegendEntry(Label("Registered Professional Forester", 1), "#006400",
                           {"NL", "NS", "NB"}, "absent", "black", FALSE),
               LegendEntry(Label("Arborist", 0), "#8FBC8F", {"AB", "SK"}, "absent", "black",
                           FALSE) >>
       ELSE << LegendEntry(Label("All Activities", 0), "none", {}, "absent", "absent", TRUE),
               LegendEntry(Label("Urban forestry", 0), "#006400", {"BC", "QC"}, "absent", "white",
                           FALSE),
               LegendEntry(Label("Some Activities", 0), "none", {}, "absent", "absent", TRUE),
               LegendEntry(Label("Urban forestry", 1), "#8FBC8F", {"ON"}, "absent", "black",
                           FALSE),
               LegendEntry(Label("Arboriculture", 0), "#ADD8E6", {"MB", "SK"}, "absent", "black",
                           FALSE) >> ]

\* legends that style provinces outside the panel's set, give a line
\* style, repeat a label with another colour, and leave a province of the
\* panel's set unlisted
\* legend tables with headings that list provinces and carry colours, a
\* heading repeated with trailing spaces, and a coloured entry that bears
\* a heading's name
LegendsHeadings ==
    [i \in 0..3 |->
       CASE i = 0 ->
            << LegendEntry(Label("Some Activities", 0), "#FF0000", {"BC"}, "dashed", "white",
                           TRUE),
               LegendEntry(Label("Some Activities", 1), "#006400", {"ON"}, "absent", "white",
                           FALSE),
               LegendEntry(Label("Some Activities", 2), "none", {}, "absent", "absent", TRUE) >>
         [] i = 1 ->
            << LegendEntry(Label("Forestry", 0), "#006400", {"BC", "ON"}, "absent", "white",
                           FALSE),
               LegendEntry(Label("All Activities", 0), "#8FBC8F", {"ON", "NL"}, "dotted",
                           "absent", TRUE) >>
         [] OTHER -> << >> ]

LegendsMixed ==
    [i \in 0..3 |->
       CASE i = 0 ->
            << LegendEntry(Label("Regulated", 0), "#006400", {"BC", "YT"}, "dashed", "white",
                           FALSE),
               LegendEntry(Label("Regulated", 2), "#8FBC8F", {"NL", "BC"}, "absent", "absent",
                           FALSE) >>
         [] i = 1 ->
            << LegendEntry(Label("Heading", 0), "none", {"ON"}, "absent", "white", TRUE),
               LegendEntry(Label("Pending", 0), "#ADD8E6", {"NB", "NT"}, "dotted", "absent",
                           FALSE) >>
         [] i = 2 -> << >>
         [] OTHER ->
            << LegendEntry(Label("Elsewhere", 0), "#808080", {"NL"}, "dashed", "white", FALSE) >> ]

\* legend_items_example of the first script
LegendItemsExample ==
    << LegendEntry(Label("Grey (AB/SK/NL/NB/NS)", 0), "#808080",
                   {"AB", "SK", "NL", "NB", "NS"}, "absent", "absent", FALSE),
       LegendEntry(Label("Dark green (BC/QC)", 0), "#006400", {"BC", "QC"}, "absent", "absent",
                   FALSE),
       LegendEntry(Label("Light green (ON)", 0), "#8FBC8F", {"ON"}, "absent", "absent",
                   FALSE) >>

\* per_province_example of the first script
PerProvinceExample ==
    [acr \in {"BC", "NL"} |->
        Entry(PyNone, Absent, Absent, Absent,
              IF acr = "BC" THEN Scalar(12) ELSE Scalar(9), PyBool(TRUE))]

OutputPath == "Figures/Figure 2 - Actors.pdf"

\* the panel definitions a call of variant v is given when its count is right
PanelsOf(v) == IF v = 5 THEN Panels1x2 ELSE IF v = 6 THEN << >> ELSE Panels2x2

\* the script's own call of variant v
ScriptCall(v) ==
    [DefaultArgs(v) EXCEPT
        !.panel_definitions = PanelsOf(v),
        !.pad = 45,
        !.per_province = PerProvinceExample,
        !.panel_legend_items = IF v \in {2, 3, 4} THEN Legends2x2
                               ELSE IF v = 5 THEN Legends1x2 ELSE EmptyLegends,
        !.legend_items = IF v \in {1, 6} THEN LegendItemsExample ELSE << >>]

\* the call of variant v that gives acr the entry (xy, off, leader) and
\* the manual offset man
LabelCall(v, acr, xy, off, ll, man) ==
    [ScriptCall(v) EXCEPT
          !.per_province = (acr :> Entry(xy, off, ll[1], ll[2], Absent, Absent)),
          !.atlantic_manual_offsets = IF man = Absent THEN EmptyTable ELSE (acr :> man)]

\* calls that vary one province's overrides
LabelCalls ==
    UNION { { LabelCall(v, acr, xy, off, NoLeader, man) :
              acr \in FocusAcronyms(v), xy \in XYValues, off \in OffsetValues,
              man \in ManualValues } : v \in Variants }

\* calls of the variants 2 and 5 that ask for a leader line
LeaderCalls ==
    { LabelCall(v, acr, xy, off, ll, Absent) :
      v \in ReportVariants, acr \in {"NL", "ON"}, xy \in {Absent, GoodXY, NumericStrings},
      off \in {Absent, GoodOffset}, ll \in LeaderValues }

\* calls of the reporting variants with an offset finer than the report prints
FineCalls ==
    { LabelCall(v, acr, xy, FineOffset, NoLeader, Absent) :
      v \in ReportVariants, acr \in {"NL", "ON"}, xy \in {Absent, GoodXY} }

\* an entry without any of the keys
EmptyEntry == Entry(Absent, Absent, Absent, Absent, Absent, Absent)

\* calls whose per_province table itself has a key named 'xy' or
\* 'label_offset' beside the entry of one province
KeyedCalls ==
    { [ScriptCall(v) EXCEPT
          !.per_province = (acr :> Entry(xy, off, Absent, Absent, Absent, Absent))
                           @@ [k \in keys |-> EmptyEntry]] :
      v \in Variants, acr \in {"NL", "ON"}, xy \in {Absent, PyNone, GoodXY},
      off \in {Absent, WrongLength, GoodOffset},
      keys \in {{"xy"}, {"label_offset"}, {"xy", "label_offset"}} }

\* calls that vary the dataset, the legends, the padding and the saving
StyleCalls ==
    { [ScriptCall(v) EXCEPT
          !.gdf = gdf,
          !.pad = pad,
          !.panel_legend_items = IF v \in 2..5 THEN leg ELSE EmptyLegends,
          !.legend_items = IF v \in {1, 6} /\ leg # EmptyLegends THEN LegendItemsExample
                           ELSE << >>,
          !.save_path = path] :
      v \in Variants, gdf \in Datasets, pad \in {0, 40, 45},
      leg \in {EmptyLegends, Legends2x2, Legends1x2, LegendsMixed, LegendsHeadings},
      path \in {NoPath, OutputPath} }

\* calls with a wrong number of panel definitions, a grid of another
\* size, a missing icon file, targets that select no row
ErrorCalls ==
    { [ScriptCall(v) EXCEPT !.panel_definitions = defs, !.nrows = nrows,
                            !.save_path = OutputPath] :
      v \in PanelVariants, nrows \in {1, 2},
      defs \in {<< >>, Panels1x2, SubSeq(Panels2x2, 1, 3), Panels2x2,
                Panels2x2 \o Panels1x2} }
    \cup
    { [ScriptCall(6) EXCEPT !.fire_icon_path = fire, !.warn_icon_path = warn,
                            !.target_acronyms = tgt, !.save_path = OutputPath] :
      fire \in {FireIcon, "Figures/flame.png"}, warn \in {WarnIcon, "Figures/alert.png"},
      tgt \in {TargetNone, Targets({"BC", "ON"}), Targets({"XX"})} }

Calls ==
    LabelCalls \cup LeaderCalls \cup FineCalls \cup KeyedCalls \cup StyleCalls \cup ErrorCalls

\* the calls made twice when two renders are compared: each script's own
\* call, the same with the figure saved, and calls of the reporting variants
\* that vary the overrides of one Atlantic province
RepeatCalls ==
    { ScriptCall(v) : v \in Variants }
    \cup { [ScriptCall(v) EXCEPT !.save_path = OutputPath] : v \in ReportVariants }
    \cup { LabelCall(v, "NL", xy, off, NoLeader, man) :
            v \in ReportVariants, xy \in {Absent, GoodXY},
            off \in {Absent, GoodOffset, NumericStrings}, man \in {Absent, GoodManual} }

(***************************************************************************)
(* The simplification scripts: Simplify Polygons.py and Simplify           *)
(* Shapefile.py.  A dataset is a sequence of rows, a row a province code   *)
(* and a closed ring of vertices (the first vertex repeated at the end).   *)
(* Coordinates count steps of half the script's tolerance: 5000 map units  *)
(* in Provinces.shp, a quarter of a degree in Provinces.gpkg.              *)
(***************************************************************************)
SimplifyScripts == {"Simplify Polygons.py", "Simplify Shapefile.py"}

\* gpd.read_file(...)
SourcePath(name) ==
    IF name = "Simplify Polygons.py" THEN "Shapefile/Provinces.shp"
    ELSE "Shapefile/Provinces.gpkg"

\* ....to_file(..., driver='GPKG')
OutputFile(name) ==
    IF name = "Simplify Polygons.py" THEN "Shapefile/Simplified provinces - 10 km.gpkg"
    ELSE "Shapefile/Provinces_simplified.gpkg"

SimplifyPaths == {SourcePath(n) : n \in SimplifyScripts} \cup {OutputFile(n) : n \in SimplifyScripts}

\* tolerance=10000 and tolerance=0.5, in steps
tolerance(name) == IF name = "Simplify Polygons.py" THEN 10000 \div 5000 ELSE 2

\* no file at the path
Missing == << [PREABBR |-> "", geometry |-> << >>] >>

FeatureRow(code, ring) == [PREABBR |-> code, geometry |-> ring]

\* mapping of Simplify Shapefile.py; gdf["PREABBR"].replace(mapping)
\* leaves every other code as it is
mapping(code) ==
    CASE code = "N.L." -> "NL"
      [] code = "P.E.I." -> "PE"
      [] code = "N.S." -> "NS"
      [] code = "N.B." -> "NB"
      [] code = "Que." -> "QC"
      [] code = "Ont." -> "ON"
      [] code = "Man." -> "MB"
      [] code = "Sask." -> "SK"
      [] code = "Alta." -> "AB"
      [] code = "B.C." -> "BC"
      [] code = "Y.T." -> "YT"
      [] code = "N.W.T." -> "NT"
      [] code = "Nvt." -> "NU"
      [] OTHER -> code

replace(df) == [r \in 1..Len(df) |-> [df[r] EXCEPT !.PREABBR = mapping(df[r].PREABBR)]]

\* squared distance of p from the segment a-b, as a fraction n/d
SegmentDistance2(p, a, b) ==
    LET len2 == (b[1] - a[1]) * (b[1] - a[1]) + (b[2] - a[2]) * (b[2] - a[2])
        dot == (p[1] - a[1]) * (b[1] - a[1]) + (p[2] - a[2]) * (b[2] - a[2])
        cross == (p[1] - a[1]) * (b[2] - a[2]) - (p[2] - a[2]) * (b[1] - a[1])
    IN  IF len2 = 0 \/ dot <= 0
        THEN [n |-> (p[1] - a[1]) * (p[1] - a[1]) + (p[2] - a[2]) * (p[2] - a[2]), d |-> 1]
        ELSE IF dot >= len2
        THEN [n |-> (p[1] - b[1]) * (p[1] - b[1]) + (p[2] - b[2]) * (p[2] - b[2]), d |-> 1]
        ELSE [n |-> cross * cross, d |-> len2]

Farther(x, y) == x.n * y.d > y.n * x.d

\* Douglas-Peucker between the kept vertices i and j of the ring: the
\* vertices kept strictly between them
RECURSIVE KeptBetween(_, _, _, _)
KeptBetween(ring, i, j, tol) ==
    IF j <= i + 1 THEN {}
    ELSE LET D(k) == SegmentDistance2(ring[k], ring[i], ring[j])
             far == CHOOSE k \in (i + 1)..(j - 1) :
                        \A m \in (i + 1)..(j - 1) :
                            /\ ~Farther(D(m), D(k))
                            /\ m < k => Farther(D(k), D(m))
         IN  IF ~Farther(D(far), [n |-> tol * tol, d |-> 1]) THEN {}
             ELSE KeptBetween(ring, i, far, tol) \cup {far} \cup KeptBetween(ring, far, j, tol)

\* the subsequence of s at the indices of keep
RECURSIVE Pick(_, _, _)
Pick(s, keep, n) ==
    IF n = 0 THEN << >>
    ELSE IF n \in keep THEN Append(Pick(s, keep, n - 1), s[n]) ELSE Pick(s, keep, n - 1)

\* geometry.simplify(tolerance, preserve_topology=True) on one ring: the
\* end points stay, and a ring that would lose its area is left as it is
simplify(ring, tol) ==
    LET keep == {1, Len(ring)} \cup KeptBetween(ring, 1, Len(ring), tol)
    IN  IF Cardinality(keep) < 4 THEN ring ELSE Pick(ring, keep, Len(ring))

\* gdf['geometry'].simplify(...) on every row
SimplifyGeometries(df, tol) ==
    [r \in 1..Len(df) |-> [df[r] EXCEPT !.geometry = simplify(df[r].geometry, tol)]]

\* rings: a square, a square with a shallow dent, a square with a vertex
\* on an edge, a triangle smaller than the tolerance
Square == << <<0, 0>>, <<8, 0>>, <<8, 8>>, <<0, 8>>, <<0, 0>> >>
Dented == << <<0, 0>>, <<4, 1>>, <<8, 0>>, <<8, 8>>, <<0, 8>>, <<0, 0>> >>
Collinear == << <<0, 0>>, <<4, 0>>, <<8, 0>>, <<8, 8>>, <<3, 9>>, <<0, 8>>, <<0, 0>> >>
Sliver == << <<0, 0>>, <<1, 0>>, <<0, 1>>, <<0, 0>> >>

\* the source datasets tried
Sources ==
    { << FeatureRow("N.L.", Dented), FeatureRow("Ont.", Square) >>,
      << FeatureRow("P.E.I.", Sliver), FeatureRow("Que.", Collinear) >>,
      << FeatureRow("NL", Dented) >>,
      << FeatureRow("Ont.", Collinear), FeatureRow("B.C.", Square), FeatureRow("N.S.", Dented) >> }

\* what the output path holds before the first run: nothing, or the
\* output of an earlier version of the script
EarlierOutputs == {Missing, << FeatureRow("ON", Square), FeatureRow("QC", Dented) >>}

\* to_file in append mode
Overwrite_Append(old, new) == IF old = Missing THEN new ELSE old \o new

\* to_file(path, driver='GPKG') writes in mode 'w': the file holds the
\* dataframe, whatever it held before
Overwrite(old, new) == new

(***************************************************************************)
(* Figures.py: three figures of coloured provinces.                        *)
(***************************************************************************)
USE_SIMPLIFIED == TRUE

shapefile_path ==
    IF USE_SIMPLIFIED THEN "Shapefile/Provinces_simplified.gpkg" ELSE "Shapefile/Provinces.gpkg"

REG_BODY_FIG == "Figures/Figure 1: Regulatory Bodies.pdf"
PROF_ASSOC_FIG == "Figures/Figure 2: Arboricultural Governance.pdf"
RIGHT_TO_PRACTICE_FIG == "Figures/Figure 3: Right to Practice.pdf"

FigurePaths == {REG_BODY_FIG, PROF_ASSOC_FIG, RIGHT_TO_PRACTICE_FIG}

\* no file at the path of a figure
NoFile == << >>

Category(title, provinces) == [title |-> title, provinces |-> provinces]

\* the dict categories of each block, in insertion order
categories(f) ==
    IF f = REG_BODY_FIG
    THEN << Category("Forestry Professional \nRegulatory Organizations",
                     {"NL", "NS", "NB", "QC", "ON", "SK", "AB", "BC"}),
            Category("Right to Title Legislation",
                     {"NL", "NS", "NB", "QC", "ON", "SK", "AB", "BC"}),
            Category("Right to Practice Legislation", {"QC", "ON", "SK", "AB", "BC"}) >>
    ELSE IF f = PROF_ASSOC_FIG
    THEN << Category("Professional Associations",
                     {"NL", "NS", "PE", "NB", "QC", "ON", "MB", "SK", "AB", "BC"}),
            Category("ISA Chapters",
                     {"NL", "NS", "PE", "NB", "QC", "ON", "MB", "SK", "AB", "BC"}),
            Category("Apprenticeship & Skilled Trades Agencies", {"NS", "NB", "QC", "ON", "BC"}),
            Category("Other Arboricultural Governance Orgs", {"BC", "MB", "ON"}) >>
    ELSE << Category("Right to Practice: Urban Forestry", {"BC", "ON", "QC"}),
            Category("Right to Practice: Rural Forestry", {"SK", "MB"}) >>

color_active == "#1f78b4"
color_inactive == "#ffffff"

\* every row gets the active colour
assign_colors_AllActive(gdf, provinces, active, inactive) ==
    [r \in 1..Len(gdf) |-> active]

\* gdf["PREABBR"].isin(provinces).map({True: color_active, False: color_inactive})
assign_colors(gdf, provinces, active, inactive) ==
    [r \in 1..Len(gdf) |-> IF gdf[r].PREABBR \in provinces THEN active ELSE inactive]

\* the axes of one figure: gdf.plot(color=colors, edgecolor="black", ...)
\* and ax.set_title(title) for every category
PlotCategories(f, gdf) ==
    [k \in 1..Len(categories(f)) |->
        [title |-> categories(f)[k].title,
         colors |-> assign_colors(gdf, categories(f)[k].provinces, color_active, color_inactive),
         edgecolor |-> "black"]]

\* the test that never finds the file
exists_Never(file, f) == FALSE

\* Path.exists()
exists(file, f) == file[f] # NoFile

\* the datasets Figures.py is run on: codes as Statistics Canada writes
\* them, codes already standardised and without Manitoba, and a dataset
\* with a code the mapping does not know
FigureDatasets ==
    { << FeatureRow("B.C.", Square), FeatureRow("Ont.", Square), FeatureRow("P.E.I.", Sliver),
         FeatureRow("Man.", Square) >>,
      << FeatureRow("BC", Square), FeatureRow("ON", Dented), FeatureRow("PE", Sliver),
         FeatureRow("SK", Square), FeatureRow("YT", Square) >>,
      << FeatureRow("Que.", Square), FeatureRow("XX", Square), FeatureRow("N.S.", Dented) >> }

\* what a figure file left by an earlier run holds
EarlierFigures(f) == { PlotCategories(f, replace(d)) : d \in FigureDatasets }

(***************************************************************************)
(* Tetrahydron Figure.py: plot_tetrahedron.                                *)
(***************************************************************************)
\* vertices A, B, C, D in thousandths; 1 - sqrt(3) is -0.732
verts ==
    [v \in 0..3 |-> CASE v = 0 -> << 0, 1000, -1000 >>
                      [] v = 1 -> << 1000, -1000, -1000 >>
                      [] v = 2 -> << 0, 0, 1000 >>
                      [] v = 3 -> << -732, -400, -1000 >>]

labels == [v \in 0..3 |-> CASE v = 0 -> "A" [] v = 1 -> "B" [] v = 2 -> "C" [] v = 3 -> "D"]

faces == << << 0, 1, 2 >>, << 0, 1, 3 >>, << 0, 2, 3 >>, << 1, 2, 3 >> >>

\* sorted((x, y))
sorted(x, y) == IF x <= y THEN << x, y >> ELSE << y, x >>

\* the dashed pairs the comment beside them names: B-D and A-D
dashed_pairs_Comment == { << 1, 3 >>, << 0, 3 >> }

dashed_pairs == { << 1, 3 >>, << 0, 3 >>, << 2, 3 >> }

\* list(edges): the elements of the set in some order
Orders(set) ==
    { o \in [1..Cardinality(set) -> set] : \A i, j \in DOMAIN o : i # j => o[i] # o[j] }

\* [[verts[a], verts[b]] for a, b in edges if keep]
RECURSIVE Segments(_, _, _)
Segments(edges, keep, n) ==
    IF n = 0 THEN << >>
    ELSE IF edges[n] \in keep
    THEN Append(Segments(edges, keep, n - 1), << verts[edges[n][1]], verts[edges[n][2]] >>)
    ELSE Segments(edges, keep, n - 1)

\* plot_tetrahedron is not running
NoTetra ==
    [pc |-> "idle", show_axes |-> FALSE, show_labels |-> FALSE, f |-> 1, i |-> 0,
     edges |-> {}, list |-> << >>, dashed_segments |-> << >>, solid_segments |-> << >>,
     axis |-> "", texts |-> << >>]

(***************************************************************************)
(* State.                                                                  *)
(***************************************************************************)
\* number of calls made in one behaviour
MaxRenders == 2

VARIABLES
    pc,        \* position in the running call: idle, check, report, figure,
               \* panels, finish, done, raised
    args,      \* the arguments of the running call
    exc,       \* the exception that ended the call, "none" otherwise
    printed,   \* the lines of the coordinate report printed so far
    fig,       \* a figure and its axes exist
    axes,      \* what has been drawn on each axes, in panel order
    figlegend, \* the handles of the legend placed on the figure
    files,     \* the files that exist
    saved,     \* the running call wrote its output file
    renders,   \* number of calls started
    earlier,   \* the arguments and the axes of the call that returned last,
               \* kept by the runs that compare two renders
    disk,      \* the datasets stored under the paths of the simplification scripts
    mem,       \* the dataframe held by the running simplification script
    script,    \* the running simplification script and its position
    runs,      \* how often each simplification script has run to its end
    given,     \* the source datasets as they were before any script ran
    stdout,    \* the lines the running simplification script has printed
    figfiles,  \* the Figures directory and the figure files of Figures.py
    figrun,    \* the running Figures.py process and its position
    tetra      \* the running plot_tetrahedron call and its locals

\* the state of the simplification scripts
simplifyVars == << disk, mem, script, runs, given, stdout >>

\* the state of Figures.py
figureVars == << figfiles, figrun >>

\* the state of the plotting scripts
plotVars == << pc, args, exc, printed, fig, axes, figlegend, files, saved, renders, earlier >>

vars == << pc, args, exc, printed, fig, axes, figlegend, files, saved, renders, earlier,
           simplifyVars, figureVars, tetra >>

\* no call has been recorded
NoRender == [seen |-> FALSE, args |-> DefaultArgs(1), axes |-> << >>]

\* what one axes holds after its panel is drawn; limits are << >> until
\* set_xlim / set_ylim run
Axes(outline, fills, loop, title, legend, legend_on, xlim, ylim) ==
    [outline |-> outline, fills |-> fills, labels |-> loop.labels, leaders |-> loop.leaders,
     icons |-> loop.icons, title |-> title, legend |-> legend, legend_on |-> legend_on,
     xlim |-> xlim, ylim |-> ylim]

\* the outline drawn above the fills
Outline_AboveFills == [color |-> "black", zorder |-> 3]

\* the context outline: gdf.boundary.plot(..., zorder=1)
Outline == [color |-> "black", zorder |-> 1]

\* Figures.py has not run: no Figures directory, no figure file
FiguresIdle ==
    /\ figfiles = [dir |-> FALSE, file |-> [f \in FigurePaths |-> NoFile]]
    /\ figrun = [pc |-> "idle", gdf |-> Missing, before |-> figfiles.file, saved |-> << >>, n |-> 0]

\* plot_tetrahedron is not running
TetraIdle == tetra = NoTetra

PlotInit ==
    /\ pc = "idle"
    /\ args = DefaultArgs(1)
    /\ exc = "none"
    /\ printed = << >>
    /\ fig = FALSE
    /\ axes = << >>
    /\ figlegend = << >>
    /\ files = {FireIcon, WarnIcon}
    /\ saved = FALSE
    /\ renders = 0
    /\ earlier = NoRender

\* the plotting scripts start; no simplification script runs and the
\* plotting scripts read none of its paths
Init ==
    /\ PlotInit
    /\ disk = [p \in SimplifyPaths |-> Missing]
    /\ mem = Missing
    /\ script = [name |-> "none", pc |-> "idle"]
    /\ runs = [n \in SimplifyScripts |-> 0]
    /\ given = disk
    /\ stdout = << >>
    /\ FiguresIdle
    /\ TetraIdle

\* the plotting function is entered with the arguments a
Enter(a) ==
    /\ args' = a
    /\ pc' = "check"
    /\ exc' = "none"
    /\ printed' = << >>
    /\ fig' = FALSE
    /\ axes' = << >>
    /\ figlegend' = << >>
    /\ saved' = FALSE
    /\ renders' = renders + 1
    /\ UNCHANGED << files, earlier, simplifyVars, figureVars, tetra >>

\* a script calls its plotting function
Call ==
    /\ pc = "idle"
    /\ renders < MaxRenders
    /\ \E a \in Calls : Enter(a)

\* a script calls its plotting function with one of the repeated calls
CallRepeat ==
    /\ pc = "idle"
    /\ renders < MaxRenders
    /\ \E a \in RepeatCalls : Enter(a)

Raise(e) == pc' = "raised" /\ exc' = e

\* plot_2x2_panels / plot_1x2_panels: the panel-count check
CheckPanelCount ==
    /\ pc = "check"
    /\ args.variant \in PanelVariants
    /\ IF Len(args.panel_definitions) # GridSize(args)
       THEN Raise("ValueError")
       ELSE /\ pc' = IF args.variant \in ReportVariants THEN "report" ELSE "figure"
            /\ UNCHANGED exc
    /\ UNCHANGED << args, printed, fig, axes, figlegend, files, saved, renders, earlier, simplifyVars, figureVars, tetra >>

\* the icon check without its second test
IconsMissing_FireOnly(a, fs) == a.fire_icon_path \notin fs

\* os.path.isfile fails for the fire icon or for the warning icon
IconsMissing(a, fs) == a.fire_icon_path \notin fs \/ a.warn_icon_path \notin fs

\* plot_map_with_icons_below_labels: the icon files, the selection and
\* the zoom mode are checked before anything is drawn
CheckIcons ==
    /\ pc = "check"
    /\ args.variant = 6
    /\ IF IconsMissing(args, files)
       THEN Raise("FileNotFoundError")
       ELSE IF SelectedRows(args) = {} \/ args.icon_zoom_mode # "pct"
       THEN Raise("ValueError")
       ELSE pc' = "figure" /\ UNCHANGED exc
    /\ UNCHANGED << args, printed, fig, axes, figlegend, files, saved, renders, earlier, simplifyVars, figureVars, tetra >>

\* the coordinate report of the variants 2 and 5
PrintReport ==
    /\ pc = "report"
    /\ LET r == ReportLoop(args, Len(args.gdf))
       IN  /\ printed' = r.lines
           /\ IF r.exc # "none" THEN Raise(r.exc)
              ELSE pc' = "figure" /\ UNCHANGED exc
    /\ UNCHANGED << args, fig, axes, figlegend, files, saved, renders, earlier, simplifyVars, figureVars, tetra >>

\* plt.subplots
CreateFigure ==
    /\ pc = "figure"
    /\ fig' = TRUE
    /\ pc' = "panels"
    /\ UNCHANGED << args, exc, printed, axes, figlegend, files, saved, renders, earlier, simplifyVars, figureVars, tetra >>

\* number of axes the call draws on
NumAxes(a) == IF a.variant = 6 THEN 1 ELSE Len(a.panel_definitions)

\* axes whose left limit moves with every call made so far
DrawnAxes_Widening(a, panel_idx) ==
    LET ext == Extent(a)
    IN  Axes(Outline, << >>, LabelLoop(a, panel_idx, Len(a.gdf)), "", << >>, FALSE,
             << ext.xmin_p - renders, ext.xmax_p >>, << ext.ymin_p, ext.ymax_p >>)

\* the axes of panel panel_idx (0-based) once its loop body has run, or
\* as far as it got when the label loop raised
DrawnAxes(a, panel_idx) ==
    LET def == IF a.variant = 6 THEN PanelDef("", {}) ELSE a.panel_definitions[panel_idx + 1]
        loop == LabelLoop(a, panel_idx, Len(a.gdf))
        fills == Fills(a, panel_idx, def.acronyms)
        ext == Extent(a)
    IN  IF loop.exc # "none"
        THEN Axes(Outline, fills, loop, "", << >>, FALSE, << >>, << >>)
        ELSE Axes(Outline, fills, loop, def.title,
                  IF a.variant = 6 THEN FigureLegend(a) ELSE PanelLegend(a, panel_idx),
                  IF a.variant = 6 THEN TRUE ELSE HasPanelLegend(a, panel_idx),
                  << ext.xmin_p, ext.xmax_p >>, << ext.ymin_p, ext.ymax_p >>)

\* the fill columns set on the argument itself
ArgsAfterPanel_NoCopy(a, panel_idx) ==
    [a EXCEPT !.gdf = [r \in RowIdx(a.gdf) |->
                          a.gdf[r] @@ [fill_color |-> "white", edge_style |-> "solid"]]]

\* the arguments as the caller sees them once a panel is drawn: the
\* columns fill_color and edge_style are set on gdf_plot = gdf.copy(),
\* the tables are only read
ArgsAfterPanel(a, panel_idx) == a

\* one iteration of the panel loop (the whole drawing in variant 6)
DrawPanel ==
    /\ pc = "panels"
    /\ Len(axes) < NumAxes(args)
    /\ LET panel_idx == Len(axes)
           loop == LabelLoop(args, panel_idx, Len(args.gdf))
       IN  /\ axes' = Append(axes, DrawnAxes(args, panel_idx))
           /\ args' = ArgsAfterPanel(args, panel_idx)
           /\ IF loop.exc # "none" THEN Raise(loop.exc)
              ELSE /\ pc' = IF Len(axes) + 1 = NumAxes(args) THEN "finish" ELSE "panels"
                   /\ UNCHANGED exc
    /\ UNCHANGED << printed, fig, figlegend, files, saved, renders, earlier, simplifyVars, figureVars, tetra >>

\* after the panel loop: the figure legend of the variants 1 and 4, the
\* layout, and plt.savefig when save_path is given
Finish ==
    /\ pc = "finish"
    /\ figlegend' = IF args.variant \in {1, 4} THEN FigureLegend(args) ELSE << >>
    /\ IF args.save_path # NoPath
       THEN files' = files \cup {args.save_path} /\ saved' = TRUE
       ELSE UNCHANGED << files, saved >>
    /\ pc' = "done"
    /\ UNCHANGED << args, exc, printed, fig, axes, renders, earlier, simplifyVars, figureVars, tetra >>

\* the call returns or its exception propagates: its locals and its
\* figure are gone, nothing but the files outlives it
Leave ==
    /\ pc \in {"done", "raised"}
    /\ pc' = "idle"
    /\ args' = DefaultArgs(1)
    /\ exc' = "none"
    /\ printed' = << >>
    /\ fig' = FALSE
    /\ axes' = << >>
    /\ figlegend' = << >>
    /\ saved' = FALSE
    /\ UNCHANGED << files, renders, simplifyVars, figureVars, tetra >>

Return == Leave /\ UNCHANGED earlier

\* the same return, what the call drew being kept for comparison
ReturnRecorded == Leave /\ earlier' = [seen |-> TRUE, args |-> args, axes |-> axes]

Next ==
    \/ Call
    \/ CheckPanelCount
    \/ CheckIcons
    \/ PrintReport
    \/ CreateFigure
    \/ DrawPanel
    \/ Finish
    \/ Return

Spec == Init /\ [][Next]_vars

\* the scripts run with the repeated calls, each render recorded
NextRepeat ==
    \/ CallRepeat
    \/ CheckPanelCount
    \/ CheckIcons
    \/ PrintReport
    \/ CreateFigure
    \/ DrawPanel
    \/ Finish
    \/ ReturnRecorded

SpecRepeat == Init /\ [][NextRepeat]_vars

(***************************************************************************)
(* The simplification scripts as processes.                                *)
(***************************************************************************)
MaxRuns == 3

InitSimplify ==
    /\ PlotInit
    /\ disk \in [SimplifyPaths -> Sources \cup EarlierOutputs]
    /\ \A n \in SimplifyScripts : /\ disk[SourcePath(n)] \in Sources
                                  /\ disk[OutputFile(n)] \in EarlierOutputs
    /\ mem = Missing
    /\ script = [name |-> "none", pc |-> "idle"]
    /\ runs = [n \in SimplifyScripts |-> 0]
    /\ given = disk
    /\ stdout = << >>
    /\ FiguresIdle
    /\ TetraIdle

\* python "Simplify ....py"
StartScript ==
    /\ script.pc = "idle"
    /\ \E n \in SimplifyScripts :
           /\ runs[n] < MaxRuns
           /\ script' = [name |-> n, pc |-> "read"]
    /\ stdout' = << >>
    /\ UNCHANGED << plotVars, figureVars, tetra, disk, mem, runs, given >>

\* provinces = gpd.read_file(...)
ReadFile ==
    /\ script.pc = "read"
    /\ mem' = disk[SourcePath(script.name)]
    /\ script' = [script EXCEPT !.pc = IF script.name = "Simplify Shapefile.py"
                                       THEN "replace" ELSE "simplify"]
    /\ UNCHANGED << plotVars, figureVars, tetra, disk, runs, given, stdout >>

\* gdf["PREABBR"] = gdf["PREABBR"].replace(mapping)
ReplaceCodes ==
    /\ script.pc = "replace"
    /\ mem' = replace(mem)
    /\ script' = [script EXCEPT !.pc = "simplify"]
    /\ UNCHANGED << plotVars, figureVars, tetra, disk, runs, given, stdout >>

\* gdf['geometry'] = gdf['geometry'].simplify(tolerance=..., preserve_topology=True)
SimplifyStep ==
    /\ script.pc = "simplify"
    /\ mem' = SimplifyGeometries(mem, tolerance(script.name))
    /\ script' = [script EXCEPT !.pc = "write"]
    /\ UNCHANGED << plotVars, figureVars, tetra, disk, runs, given, stdout >>

\* gdf.geometry.apply(lambda x: len(x.exterior.coords) ...).sum()
RECURSIVE VertexCount(_, _)
VertexCount(df, n) ==
    IF n = 0 THEN 0 ELSE VertexCount(df, n - 1) + Len(df[n].geometry)

\* the summary of Simplify Shapefile.py, printed from the dataframe the
\* script holds when it reaches the two print calls; Simplify Polygons.py
\* prints no summary
Summary(name, df) ==
    IF name = "Simplify Shapefile.py"
    THEN << [text |-> "Original vertices", n |-> VertexCount(df, Len(df))],
            [text |-> "Simplified saved to", n |-> 0] >>
    ELSE << >>

\* gdf.to_file(...); the summary and the plot follow and the process ends
ToFile ==
    /\ script.pc = "write"
    /\ disk' = [disk EXCEPT ![OutputFile(script.name)] = Overwrite(@, mem)]
    /\ stdout' = Summary(script.name, mem)
    /\ runs' = [runs EXCEPT ![script.name] = @ + 1]
    /\ mem' = Missing
    /\ script' = [name |-> "none", pc |-> "idle"]
    /\ UNCHANGED << plotVars, figureVars, tetra, given >>

NextSimplify ==
    \/ StartScript
    \/ ReadFile
    \/ ReplaceCodes
    \/ SimplifyStep
    \/ ToFile

SpecSimplify == InitSimplify /\ [][NextSimplify]_vars

(***************************************************************************)
(* Figures.py as a process.                                                *)
(***************************************************************************)
MaxFigureRuns == 2

\* the shapefile is one of the datasets or missing; the Figures directory
\* may exist and hold figures of earlier runs
InitFigures ==
    /\ PlotInit
    /\ \E d \in FigureDatasets \cup {Missing} :
           disk = [p \in SimplifyPaths |-> IF p = shapefile_path THEN d ELSE Missing]
    /\ mem = Missing
    /\ script = [name |-> "none", pc |-> "idle"]
    /\ runs = [n \in SimplifyScripts |-> 0]
    /\ given = disk
    /\ stdout = << >>
    /\ \E dir \in BOOLEAN :
       \E file \in [FigurePaths -> {NoFile} \cup UNION {EarlierFigures(f) : f \in FigurePaths}] :
           /\ \A f \in FigurePaths : file[f] \in {NoFile} \cup EarlierFigures(f)
           /\ ~dir => \A f \in FigurePaths : file[f] = NoFile
           /\ figfiles = [dir |-> dir, file |-> file]
    /\ figrun = [pc |-> "idle", gdf |-> Missing, before |-> figfiles.file, saved |-> << >>, n |-> 0]
    /\ TetraIdle

\* python Figures.py: FIGURE_DIR.mkdir(exist_ok=True)
StartFigures ==
    /\ figrun.pc = "idle"
    /\ figrun.n < MaxFigureRuns
    /\ figfiles' = [figfiles EXCEPT !.dir = TRUE]
    /\ figrun' = [pc |-> "load", gdf |-> Missing, before |-> figfiles.file, saved |-> << >>,
                  n |-> figrun.n + 1]
    /\ UNCHANGED << plotVars, simplifyVars, tetra >>

\* gdf = gpd.read_file(shapefile_path), which fails when there is no
\* file, and gdf["PREABBR"] = gdf["PREABBR"].replace(mapping)
LoadShapefile ==
    /\ figrun.pc = "load"
    /\ figrun' = IF disk[shapefile_path] = Missing
                 THEN [figrun EXCEPT !.pc = "raised"]
                 ELSE [figrun EXCEPT !.pc = "reg", !.gdf = replace(disk[shapefile_path])]
    /\ UNCHANGED << plotVars, simplifyVars, figfiles, tetra >>

\* one block: if not F.exists(): ... fig.savefig(F); print(f"Saved: {F}")
FigureBlock(f, next) ==
    /\ IF exists(figfiles.file, f)
       THEN /\ figrun' = [figrun EXCEPT !.pc = next]
            /\ UNCHANGED figfiles
       ELSE /\ figfiles' = [figfiles EXCEPT !.file[f] = PlotCategories(f, figrun.gdf)]
            /\ figrun' = [figrun EXCEPT !.pc = next, !.saved = Append(@, f)]
    /\ UNCHANGED << plotVars, simplifyVars, tetra >>

RegBodyFigure ==
    /\ figrun.pc = "reg"
    /\ FigureBlock(REG_BODY_FIG, "prof")

ProfAssocFigure ==
    /\ figrun.pc = "prof"
    /\ FigureBlock(PROF_ASSOC_FIG, "right")

RightToPracticeFigure ==
    /\ figrun.pc = "right"
    /\ FigureBlock(RIGHT_TO_PRACTICE_FIG, "done")

\* the process ends
EndFigures ==
    /\ figrun.pc \in {"done", "raised"}
    /\ figrun' = [figrun EXCEPT !.pc = "idle", !.gdf = Missing]
    /\ UNCHANGED << plotVars, simplifyVars, figfiles, tetra >>

NextFigures ==
    \/ StartFigures
    \/ LoadShapefile
    \/ RegBodyFigure
    \/ ProfAssocFigure
    \/ RightToPracticeFigure
    \/ EndFigures

SpecFigures == InitFigures /\ [][NextFigures]_vars

(***************************************************************************)
(* plot_tetrahedron as a process.                                          *)
(***************************************************************************)
\* plot_tetrahedron(show_axes=..., show_labels=...)
CallTetrahedron ==
    /\ tetra.pc = "idle"
    /\ \E show_axes \in BOOLEAN, show_labels \in BOOLEAN :
           tetra' = [NoTetra EXCEPT !.pc = "edges", !.show_axes = show_axes,
                                    !.show_labels = show_labels]
    /\ UNCHANGED << plotVars, simplifyVars, figureVars >>

\* one iteration of: for f in faces: for i in range(3): edges.add(sorted(...))
AddEdge ==
    /\ tetra.pc = "edges"
    /\ LET f == faces[tetra.f]
           i == tetra.i
           ab == sorted(f[i + 1], f[((i + 1) % 3) + 1])
       IN  tetra' = [tetra EXCEPT
                        !.edges = @ \cup {ab},
                        !.i = (i + 1) % 3,
                        !.f = IF i = 2 THEN @ + 1 ELSE @,
                        !.pc = IF i = 2 /\ tetra.f = Len(faces) THEN "list" ELSE "edges"]
    /\ UNCHANGED << plotVars, simplifyVars, figureVars >>

\* edges = list(edges)
ListEdges ==
    /\ tetra.pc = "list"
    /\ \E o \in Orders(tetra.edges) : tetra' = [tetra EXCEPT !.list = o, !.pc = "segments"]
    /\ UNCHANGED << plotVars, simplifyVars, figureVars >>

\* the two segment lists, drawn as two Line3DCollections
BuildSegments ==
    /\ tetra.pc = "segments"
    /\ tetra' = [tetra EXCEPT
                    !.dashed_segments = Segments(tetra.list, dashed_pairs, Len(tetra.list)),
                    !.solid_segments =
                        Segments(tetra.list, tetra.edges \ dashed_pairs, Len(tetra.list)),
                    !.pc = "draw"]
    /\ UNCHANGED << plotVars, simplifyVars, figureVars >>

\* the axes toggle and the label toggle
DrawTetrahedron ==
    /\ tetra.pc = "draw"
    /\ tetra' = [tetra EXCEPT
                    !.axis = IF tetra.show_axes THEN "on" ELSE "off",
                    !.texts = IF tetra.show_labels THEN [k \in 1..4 |-> labels[k - 1]] ELSE << >>,
                    !.pc = "done"]
    /\ UNCHANGED << plotVars, simplifyVars, figureVars >>

\* return fig, ax
ReturnTetrahedron ==
    /\ tetra.pc = "done"
    /\ tetra' = NoTetra
    /\ UNCHANGED << plotVars, simplifyVars, figureVars >>

NextTetrahedron ==
    \/ CallTetrahedron
    \/ AddEdge
    \/ ListEdges
    \/ BuildSegments
    \/ DrawTetrahedron
    \/ ReturnTetrahedron

SpecTetrahedron == Init /\ [][NextTetrahedron]_vars

(***************************************************************************)
(* Vocabulary of the properties.                                           *)
(***************************************************************************)
\* a valid coordinate pair: a 2-tuple of numbers
NumericPair(val) ==
    val.k = "tuple" /\ Len(val.e) = 2 /\ val.e[1].t = "num" /\ val.e[2].t = "num"

\* missing, None, of the wrong length, or non-numeric
NotValid(val) ==
    \/ val.k \in {"absent", "none", "scalar"}
    \/ Len(val.e) # 2
    \/ \E k \in 1..Len(val.e) : val.e[k].t = "word"

\* the value stored for acr under key of per_province, Absent when the
\* table has no entry or the entry no such key
Stored(acr, key) ==
    IF acr \in DOMAIN args.per_province THEN args.per_province[acr][key] ELSE Absent

\* the value stored for acr in atlantic_manual_offsets
StoredManual(acr) ==
    IF acr \in DOMAIN args.atlantic_manual_offsets
    THEN args.atlantic_manual_offsets[acr] ELSE Absent

\* the axes whose panel was drawn to the end
CompleteAxes == {i \in 1..Len(axes) : pc # "raised" \/ i < Len(axes)}

\* the labels drawn so far, as << axes index, label index >>
DrawnLabels ==
    {il \in (1..Len(axes)) \X RowIdx(args.gdf) : il[2] <= Len(axes[il[1]].labels)}
LabelAt(il) == axes[il[1]].labels[il[2]]

\* the row of the dataset that carries the acronym
RowOf(acr) ==
    args.gdf[CHOOSE i \in RowIdx(args.gdf) : Acronym(args.variant, args.gdf[i]) = acr]

\* bounds and spans of the whole dataset, a zero span counting as 1.0
XMin == MinOf({args.gdf[i].x0 : i \in RowIdx(args.gdf)})
XMax == MaxOf({args.gdf[i].x1 : i \in RowIdx(args.gdf)})
YMin == MinOf({args.gdf[i].y0 : i \in RowIdx(args.gdf)})
YMax == MaxOf({args.gdf[i].y1 : i \in RowIdx(args.gdf)})
XSpan == IF XMax = XMin THEN Unit ELSE XMax - XMin
YSpan == IF YMax = YMin THEN Unit ELSE YMax - YMin

\* twice the preset multiplier: NL +1.0, PE/PEI +1.5, NS -0.5, NB -1.0
PresetTwice(acr) ==
    CASE acr = "NL" -> 2
      [] acr \in {"PE", "PEI"} -> 3
      [] acr = "NS" -> -1
      [] acr = "NB" -> -2

\* (cx + xspan * x_frac, cy + m * yspan * y_frac)
HeuristicPoint(acr) ==
    << Num(RowOf(acr).cx + (XSpan * args.atlantic_offset_x_frac) \div FracDen),
       Num(RowOf(acr).cy
           + (PresetTwice(acr) * ((YSpan * args.atlantic_offset_y_frac) \div FracDen)) \div 2) >>

CentroidOf(acr) == << Num(RowOf(acr).cx), Num(RowOf(acr).cy) >>

\* the point of the third or fourth placement rule
DefaultPoint(acr) ==
    IF acr \in atlantic_set(args.variant) THEN HeuristicPoint(acr) ELSE CentroidOf(acr)

Plus(p, d) == << Num(p[1].v + d[1].v), Num(p[2].v + d[2].v) >>

(***************************************************************************)
(* C1.  In every label-placing function, a province whose 'xy' is a valid  *)
(* numeric 2-tuple has its label drawn at that xy, plus its label_offset   *)
(* when that is valid, whatever its manual-offset entry, Atlantic          *)
(* membership or centroid.                                                 *)
(***************************************************************************)
C1_OverrideWins ==
    \A il \in DrawnLabels :
        LET l == LabelAt(il)
            xy == Stored(l.acr, "xy")
            off == Stored(l.acr, "label_offset")
        IN  NumericPair(xy) /\ (NumericPair(off) \/ NotValid(off))
            => l.p = IF NumericPair(off) THEN Plus(xy.e, off.e) ELSE xy.e

(***************************************************************************)
(* C2.  An Atlantic-region acronym (a member of the function's            *)
(* atlantic_set) with no valid coordinate override and no valid            *)
(* manual-offset entry is labelled at                                      *)
(* (cx + xspan * x_frac, cy + m * yspan * y_frac), the spans being those   *)
(* of the whole dataset's bounds and m the preset multiplier of the        *)
(* acronym.  As stated, whatever the label_offset:                         *)
(***************************************************************************)
C2_AtlanticPoint ==
    \A il \in DrawnLabels :
        LET l == LabelAt(il)
        IN  /\ l.acr \in atlantic_set(args.variant)
            /\ NotValid(Stored(l.acr, "xy"))
            /\ NotValid(StoredManual(l.acr))
            => l.p = HeuristicPoint(l.acr)

\* C2 as it holds: the same for a province that has no valid label_offset
\* either
C2_AtlanticPointNoOffset ==
    \A il \in DrawnLabels :
        LET l == LabelAt(il)
        IN  /\ l.acr \in atlantic_set(args.variant)
            /\ NotValid(Stored(l.acr, "xy"))
            /\ NotValid(StoredManual(l.acr))
            /\ NotValid(Stored(l.acr, "label_offset"))
            => l.p = HeuristicPoint(l.acr)

\* the scenario of the specification is rendered: NL is labelled at
\* (560, 1060)
C2_Witness ==
    /\ pc = "done"
    /\ args.gdf = GdfExample
    /\ args.atlantic_offset_x_frac = 60 /\ args.atlantic_offset_y_frac = 30
    /\ \E il \in DrawnLabels :
          LabelAt(il).acr = "NL" /\ LabelAt(il).p = << Num(560 * Unit), Num(1060 * Unit) >>

(***************************************************************************)
(* C3.  An acronym outside the Atlantic set with no coordinate override is *)
(* labelled at its polygon centroid exactly.  As stated:                   *)
(***************************************************************************)
C3_CentroidExactly ==
    \A il \in DrawnLabels :
        LET l == LabelAt(il)
        IN  /\ l.acr \notin atlantic_set(args.variant)
            /\ NotValid(Stored(l.acr, "xy"))
            => l.p = CentroidOf(l.acr)

\* C3 as it holds: the same for a province that has no valid manual-offset
\* entry and no valid label_offset either
C3_CentroidNoManualNoOffset ==
    \A il \in DrawnLabels :
        LET l == LabelAt(il)
        IN  /\ l.acr \notin atlantic_set(args.variant)
            /\ NotValid(Stored(l.acr, "xy"))
            /\ NotValid(StoredManual(l.acr))
            /\ NotValid(Stored(l.acr, "label_offset"))
            => l.p = CentroidOf(l.acr)

\* Ontario, given an entry whose 'xy' is None, is labelled at its centroid
C3_Witness ==
    /\ pc = "done"
    /\ args.variant = 5
    /\ Stored("ON", "xy") = PyNone
    /\ NotValid(StoredManual("ON")) /\ NotValid(Stored("ON", "label_offset"))
    /\ \E il \in DrawnLabels : LabelAt(il).acr = "ON" /\ LabelAt(il).p = CentroidOf("ON")

(***************************************************************************)
(* C4.  Strict precedence: with no valid override and a valid manual       *)
(* entry the base point is that entry, and the Atlantic heuristic is       *)
(* reached only when both the override and the manual entry are absent or  *)
(* invalid.  (Stated for provinces without a valid label_offset, whose     *)
(* label is drawn at the base point.)                                      *)
(***************************************************************************)
C4_StrictPrecedence ==
    \A il \in DrawnLabels :
        LET l == LabelAt(il)
            xy == Stored(l.acr, "xy")
            man == StoredManual(l.acr)
        IN  NotValid(Stored(l.acr, "label_offset"))
            => /\ NotValid(xy) /\ NumericPair(man) => l.p = man.e
               /\ (l.acr \in atlantic_set(args.variant) /\ l.p = HeuristicPoint(l.acr))
                  => ~NumericPair(xy) /\ ~NumericPair(man)

(***************************************************************************)
(* C5.  When an 'xy', 'label_offset' or manual-offset value is missing,    *)
(* None, of the wrong length or non-numeric, label resolution raises       *)
(* nothing, every named province is labelled, and the label is placed by   *)
(* the next applicable rule.                                               *)
(***************************************************************************)
\* every stored value is a numeric pair or one of the invalid kinds
PlainTables ==
    /\ \A acr \in DOMAIN args.per_province :
          \A key \in {"xy", "label_offset", "line_start"} :
              NumericPair(Stored(acr, key)) \/ NotValid(Stored(acr, key))
    /\ \A acr \in DOMAIN args.atlantic_manual_offsets :
          NumericPair(StoredManual(acr)) \/ NotValid(StoredManual(acr))

\* the call is refused before label resolution starts
Refused ==
    \/ args.variant \in PanelVariants
       /\ Len(args.panel_definitions) # (IF args.variant = 5 THEN args.nrows * args.ncols ELSE 4)
    \/ args.variant = 6
       /\ \/ args.fire_icon_path \notin files
          \/ args.warn_icon_path \notin files
          \/ args.target_acronyms.given
             /\ \A i \in RowIdx(args.gdf) :
                   Acronym(args.variant, args.gdf[i]) \notin args.target_acronyms.acrs

C5_InvalidFallsThrough ==
    PlainTables =>
        /\ pc = "raised" => Refused
        /\ \A i \in CompleteAxes :
              Len(axes[i].labels) = Cardinality(NamedRows(args.variant, args.gdf))
        /\ pc = "figure" /\ args.variant \in ReportVariants
              => Len(printed) = Cardinality(NamedRows(args.variant, args.gdf))
        /\ \A il \in DrawnLabels :
              LET l == LabelAt(il)
                  man == StoredManual(l.acr)
              IN  NotValid(Stored(l.acr, "xy")) /\ NotValid(Stored(l.acr, "label_offset"))
                  => l.p = IF NumericPair(man) THEN man.e ELSE DefaultPoint(l.acr)

\* the tables of per_province are keyed by acronyms alone
AcronymKeys == DOMAIN args.per_province \cap {"xy", "label_offset"} = {}

\* C5 holds of every call whose per_province has no key 'xy' or
\* 'label_offset' of its own: only the subscript behind the membership
\* test of the whole table raises
C5_FallsThroughAcronymKeys == AcronymKeys => C5_InvalidFallsThrough

\* a call whose three values for NL are invalid in three different ways
\* is drawn to the end, NL placed by the Atlantic rule
C5_Witness ==
    /\ pc = "done"
    /\ args.variant = 2
    /\ Stored("NL", "xy") = NonNumeric
    /\ Stored("NL", "label_offset") = WrongLength
    /\ StoredManual("NL") = PyNone
    /\ \E il \in DrawnLabels : LabelAt(il).acr = "NL" /\ LabelAt(il).p = HeuristicPoint("NL")

(***************************************************************************)
(* C6.  A valid label_offset (dx, dy) is added exactly once to the base    *)
(* point of whichever placement rule applied; an absent or invalid offset  *)
(* leaves the base point.  (Stated for provinces without a valid           *)
(* coordinate override, whose base point is the manual entry or the        *)
(* Atlantic or centroid point.)                                            *)
(***************************************************************************)
C6_OffsetAddedOnce ==
    \A il \in DrawnLabels :
        LET l == LabelAt(il)
            man == StoredManual(l.acr)
            off == Stored(l.acr, "label_offset")
            base == IF NumericPair(man) THEN man.e ELSE DefaultPoint(l.acr)
        IN  /\ NotValid(Stored(l.acr, "xy"))
            /\ NumericPair(man) \/ NotValid(man)
            /\ NumericPair(off) \/ NotValid(off)
            => l.p = IF NumericPair(off) THEN Plus(base, off.e) ELSE base

(***************************************************************************)
(* C7.  A call whose number of panel definitions differs from the grid     *)
(* size (4, or nrows * ncols in plot_1x2_panels) raises ValueError before  *)
(* any coordinate report is printed, any figure or axes is created, or any *)
(* output file is written.                                                 *)
(***************************************************************************)
C7_PanelCountFatal ==
    /\ args.variant \in PanelVariants
    /\ pc \notin {"idle", "check"}
    /\ Len(args.panel_definitions) # (IF args.variant = 5 THEN args.nrows * args.ncols ELSE 4)
    => /\ pc = "raised"
       /\ exc = "ValueError"
       /\ printed = << >>
       /\ ~fig
       /\ axes = << >>
       /\ figlegend = << >>
       /\ ~saved

\* plot_1x2_panels given four definitions for its 1x2 grid, with a save
\* path, has raised
C7_Witness ==
    /\ pc = "raised"
    /\ exc = "ValueError"
    /\ args.variant = 5
    /\ args.nrows * args.ncols = 2
    /\ Len(args.panel_definitions) = 4
    /\ args.save_path = OutputPath

(***************************************************************************)
(* C8.  In plot_map_with_icons_below_labels, when the fire icon file or    *)
(* the warning icon file does not exist, FileNotFoundError is raised       *)
(* before any figure is created, anything is drawn, or any output file is  *)
(* saved.                                                                  *)
(***************************************************************************)
C8_MissingIconFatal ==
    /\ args.variant = 6
    /\ pc \notin {"idle", "check"}
    /\ args.fire_icon_path \notin files \/ args.warn_icon_path \notin files
    => /\ pc = "raised"
       /\ exc = "FileNotFoundError"
       /\ ~fig
       /\ axes = << >>
       /\ figlegend = << >>
       /\ ~saved

\* the fire icon exists, the warning icon does not: the call has raised
C8_Witness ==
    /\ pc = "raised"
    /\ exc = "FileNotFoundError"
    /\ args.variant = 6
    /\ args.fire_icon_path \in files
    /\ args.warn_icon_path \notin files
    /\ args.save_path = OutputPath

(***************************************************************************)
(* C9.  In a multi-panel figure every panel ends with the same axis        *)
(* limits, x in [xmin - xspan * pad, xmax + xspan * pad] and y in          *)
(* [ymin - yspan * pad, ymax + yspan * pad + yspan * north_extra],         *)
(* computed from the bounds of the whole dataset, whatever the panel's     *)
(* acronyms, legend and label positions.                                   *)
(***************************************************************************)
C9_SharedExtent ==
    args.variant \in PanelVariants =>
        \A i \in CompleteAxes :
            /\ axes[i].xlim = << XMin - (XSpan * args.pad) \div FracDen,
                                 XMax + (XSpan * args.pad) \div FracDen >>
            /\ axes[i].ylim = << YMin - (YSpan * args.pad) \div FracDen,
                                 YMax + (YSpan * args.pad) \div FracDen
                                      + (YSpan * args.north_extra) \div FracDen >>

\* four panels with different acronym sets and legends, one province
\* labelled far from its centroid, all drawn: the limits are those of
\* the map padded by 4.5 % and 9 % more to the north
C9_Witness ==
    /\ pc = "done"
    /\ args.variant = 2
    /\ args.gdf = GdfMap
    /\ args.pad = 45
    /\ Len(axes) = 4
    /\ Stored("NL", "xy") = GoodXY
    /\ \A i \in 1..4 : /\ axes[i].xlim = << 4000 * Unit - 9900, 5100 * Unit + 9900 >>
                       /\ axes[i].ylim = << 1150 * Unit - 16650, 3000 * Unit + 16650 + 33300 >>

(***************************************************************************)
(* C10.  In each panel a province whose acronym is not in the panel's      *)
(* acronym set is drawn with the neutral fill and a solid edge even when   *)
(* the legend assigns that acronym a colour or line style; a province in   *)
(* the set gets the colour and line style of the legend entry that lists   *)
(* it, or the neutral fill if no entry lists it.                           *)
(***************************************************************************)
\* the legend specification of the panel drawn on axes i
LegendOf(i) ==
    IF args.variant = 1 THEN args.legend_items
    ELSE IF (i - 1) \in DOMAIN args.panel_legend_items THEN args.panel_legend_items[i - 1]
    ELSE << >>

Neutral == [color |-> IF args.variant = 1 THEN "#D3D3D3" ELSE "white", style |-> "solid"]
FillOf(i, r) == [color |-> axes[i].fills[r].color, style |-> axes[i].fills[r].style]
StyleOf(entry) ==
    [color |-> entry.color,
     style |-> IF entry.linestyle = "absent" THEN "solid" ELSE entry.linestyle]

\* the rows of the panel on axes i whose acronym is in the panel's set
InSet(i) ==
    {r \in RowIdx(args.gdf) :
        Acronym(args.variant, args.gdf[r]) \in args.panel_definitions[i].acronyms}

C10_PanelFills ==
    args.variant \in PanelVariants =>
        \A i \in 1..Len(axes) : \A r \in RowIdx(args.gdf) :
            LET acr == Acronym(args.variant, args.gdf[r])
                items == LegendOf(i)
                lists == {k \in 1..Len(items) : acr \in items[k].acronyms}
            IN  IF r \notin InSet(i) THEN FillOf(i, r) = Neutral
                ELSE IF lists = {} THEN FillOf(i, r) = Neutral
                ELSE \E k \in lists : FillOf(i, r) = StyleOf(items[k])

\* the built-in colour groups of the script with a single figure legend
BuiltinGroup(acr) ==
    CASE acr \in {"AB", "SK", "NL", "NB", "NS"} -> "#808080"
      [] acr \in {"BC", "QC"} -> "#006400"
      [] acr = "ON" -> "#8FBC8F"
      [] OTHER -> "#D3D3D3"

\* C10 as it holds: plot_1x2_panels passes over the acronyms of a
\* heading entry, and a province of the set that no entry lists gets the
\* neutral fill except in the script with a single figure legend, which
\* gives it the colour of its built-in group
C10_PanelFillsBuiltinGroups ==
    args.variant \in PanelVariants =>
        \A i \in 1..Len(axes) : \A r \in RowIdx(args.gdf) :
            LET acr == Acronym(args.variant, args.gdf[r])
                items == LegendOf(i)
                lists == {k \in 1..Len(items) :
                             /\ acr \in items[k].acronyms
                             /\ ~(args.variant = 5 /\ items[k].is_subtitle)}
            IN  IF r \notin InSet(i) THEN FillOf(i, r) = Neutral
                ELSE IF lists # {} THEN \E k \in lists : FillOf(i, r) = StyleOf(items[k])
                ELSE IF args.variant = 1
                THEN FillOf(i, r) = [color |-> BuiltinGroup(acr), style |-> "solid"]
                ELSE FillOf(i, r) = Neutral

\* a legend gives NL a grey dashed style in a panel whose set lacks NL,
\* and lists BC twice in a panel whose set holds BC: NL stays white and
\* solid there, BC takes the style of the second entry
C10_Witness ==
    /\ pc = "done"
    /\ args.variant = 2
    /\ args.gdf = GdfMap
    /\ args.panel_legend_items = LegendsMixed
    /\ "NL" \notin args.panel_definitions[4].acronyms
    /\ FillOf(4, 3) = [color |-> "white", style |-> "solid"]
    /\ "BC" \in args.panel_definitions[1].acronyms
    /\ FillOf(1, 1) = [color |-> "#8FBC8F", style |-> "solid"]

(***************************************************************************)
(* C11.  In a per-panel legend each distinct non-heading label, compared   *)
(* after stripping, appears exactly once, with the swatch colour and line  *)
(* style of the first entry that has that label; later entries with the    *)
(* same stripped label add no row.                                         *)
(***************************************************************************)
\* the scripts that draw a legend on each panel
PerPanelLegendVariants == {2, 3, 5}

\* the entries of the legend specification on axes i that are no headings
RegularEntries(i) ==
    {k \in 1..Len(LegendOf(i)) : ~(args.variant = 5 /\ LegendOf(i)[k].is_subtitle)}

\* the rows of the legend drawn on axes i that are not bold and show the
\* label
RowsOf(i, text) ==
    {n \in 1..Len(axes[i].legend) :
        ~axes[i].legend[n].bold /\ Strip(axes[i].legend[n].label) = text}

\* the first regular entry of axes i with the stripped label
FirstWith(i, text) ==
    CHOOSE k \in RegularEntries(i) :
        /\ Strip(LegendOf(i)[k].label) = text
        /\ \A j \in RegularEntries(i) : Strip(LegendOf(i)[j].label) = text => k <= j

\* the legend of axes i has one row per stripped label, styled by the
\* first entry
OneRowPerLabel(i) ==
    \A k \in RegularEntries(i) :
        LET text == Strip(LegendOf(i)[k].label)
            first == LegendOf(i)[FirstWith(i, text)]
        IN  /\ Cardinality(RowsOf(i, text)) = 1
            /\ \A n \in RowsOf(i, text) :
                  /\ axes[i].legend[n].color = first.color
                  /\ axes[i].legend[n].style = StyleOf(first).style

C11_LegendRowsUnique ==
    args.variant \in PerPanelLegendVariants =>
        \A i \in CompleteAxes : axes[i].legend_on => OneRowPerLabel(i)

\* C11 holds of the two scripts that strip the labels and keep the set of
\* labels seen: the second plot_2x2_panels script and plot_1x2_panels
C11_LegendRowsUniqueWhereStripped ==
    args.variant \in ReportVariants =>
        \A i \in CompleteAxes : axes[i].legend_on => OneRowPerLabel(i)

\* plot_1x2_panels has drawn the legend of its second panel: "Urban
\* forestry" and "Urban forestry " give one dark green row
C11_Witness ==
    /\ pc = "done"
    /\ args.variant = 5
    /\ args.panel_legend_items = Legends1x2
    /\ axes[2].legend_on
    /\ Cardinality({k \in RegularEntries(2) :
                       Strip(LegendOf(2)[k].label) = "Urban forestry"}) = 2
    /\ \E n \in RowsOf(2, "Urban forestry") : axes[2].legend[n].color = "#006400"

(***************************************************************************)
(* C12.  In every panel exactly one label is drawn for each dataset row    *)
(* whose name is a key of the acronym lookup table, whether or not the     *)
(* panel highlights it, and none for a row whose name is not in the table. *)
(***************************************************************************)
\* the keys of the lookup table
TableKeys ==
    {NameNL, NamePE, NameNS, NameNB, NameQC, "Ontario", "Manitoba", "Saskatchewan",
     "Alberta", NameBC, "Yukon", NameNT, "Nunavut"}

\* the rows of the dataset whose name is a key
KeyedRows == {r \in RowIdx(args.gdf) : args.gdf[r].name \in TableKeys}

\* the labels on axes i drawn for row r: those showing its acronym at a
\* point resolved for that row
LabelsOfRow(i, r) ==
    {n \in 1..Len(axes[i].labels) :
        axes[i].labels[n].acr = province_acronyms(args.variant, args.gdf[r].name)}

C12_OneLabelPerNamedRow ==
    \A i \in CompleteAxes :
        /\ Len(axes[i].labels) = Cardinality(KeyedRows)
        /\ \A r \in KeyedRows : Cardinality(LabelsOfRow(i, r)) = 1
        /\ \A n \in 1..Len(axes[i].labels) : \E r \in KeyedRows : n \in LabelsOfRow(i, r)

\* the fourth panel of the second script highlights BC, ON and MB alone;
\* it is drawn on the map of seven rows, one of them Greenland: six
\* labels, NL among them, none for Greenland
C12_Witness ==
    /\ pc = "done"
    /\ args.variant = 2
    /\ args.gdf = GdfMap
    /\ Len(axes) = 4
    /\ "NL" \notin args.panel_definitions[4].acronyms
    /\ \E r \in RowIdx(args.gdf) : args.gdf[r].name = NameOther
    /\ Len(axes[4].labels) = 6
    /\ \E n \in 1..6 : axes[4].labels[n].acr = "NL"

(***************************************************************************)
(* C13.  In the scripts that draw leader lines, a leader line is drawn for *)
(* a province if and only if its 'leader_line' flag is set and the final   *)
(* label position differs from the anchor by more than 1000 map units in x *)
(* or in y; the anchor is the entry's 'line_start' when that is a valid    *)
(* coordinate pair and the centroid otherwise; the line runs from the      *)
(* anchor to the final label position.                                     *)
(***************************************************************************)
\* the anchor of the leader line of acr
AnchorOf(acr) ==
    IF NumericPair(Stored(acr, "line_start")) THEN Stored(acr, "line_start").e
    ELSE CentroidOf(acr)

\* the label at p lies more than 1000 map units from the anchor in x or in y
FarFrom(p, anchor) ==
    \/ Abs(p[1].v - anchor[1].v) > 1000 * Unit
    \/ Abs(p[2].v - anchor[2].v) > 1000 * Unit

\* the leader lines drawn for acr on axes i
LeadersOf(i, acr) == {n \in 1..Len(axes[i].leaders) : axes[i].leaders[n].acr = acr}

C13_LeaderLine ==
    args.variant \in ReportVariants =>
        \A il \in DrawnLabels :
            il[1] \in CompleteAxes =>
                LET acr == LabelAt(il).acr
                    p == LabelAt(il).p
                    lines == LeadersOf(il[1], acr)
                IN  IF Truthy(Stored(acr, "leader_line")) /\ FarFrom(p, AnchorOf(acr))
                    THEN /\ Cardinality(lines) = 1
                         /\ \A n \in lines : /\ axes[il[1]].leaders[n].from = AnchorOf(acr)
                                             /\ axes[il[1]].leaders[n].to = p
                    ELSE lines = {}

\* a line from an explicit line_start to a label moved by label_offset
C13_Witness ==
    /\ pc = "done"
    /\ args.variant = 2
    /\ Stored("ON", "xy") = GoodXY
    /\ Stored("ON", "label_offset") = GoodOffset
    /\ Stored("ON", "line_start") = Pair(3300 * Unit, 2500 * Unit)
    /\ \E n \in 1..Len(axes[1].leaders) :
           /\ axes[1].leaders[n].acr = "ON"
           /\ axes[1].leaders[n].from = Pair(3300 * Unit, 2500 * Unit).e
           /\ axes[1].leaders[n].to = Plus(GoodXY.e, GoodOffset.e)

\* the flag is set and the label lies exactly 1000 map units from the
\* anchor: no line
C13_WitnessAtThreshold ==
    /\ pc = "done"
    /\ args.variant = 5
    /\ Truthy(Stored("ON", "leader_line"))
    /\ Stored("ON", "xy") = GoodXY
    /\ Stored("ON", "label_offset") = Absent
    /\ Stored("ON", "line_start") = Pair(3300 * Unit, 2500 * Unit)
    /\ axes[1].leaders = << >>

(***************************************************************************)
(* C14.  Two renders with the same dataset, panel definitions and style    *)
(* tables produce identical label coordinates for every acronym in every   *)
(* panel and identical axis extents: nothing left by an earlier render or  *)
(* an earlier panel enters the positions.                                  *)
(***************************************************************************)
\* the two calls differ at most in where the figure is saved
SameInputs(a, b) == [a EXCEPT !.save_path = NoPath] = [b EXCEPT !.save_path = NoPath]

\* the computed coordinates of one axes: the acronym and the position of
\* each label, and the limits
Coordinates(ax) ==
    [labels |-> [n \in 1..Len(ax.labels) |-> << ax.labels[n].acr, ax.labels[n].p >>],
     xlim |-> ax.xlim, ylim |-> ax.ylim]

SourcesKept == \A n \in SimplifyScripts : disk[SourcePath(n)] = given[SourcePath(n)]

\* as claimed: after any number of runs the output is the simplified source
C15_OutputIsSimplification ==
    /\ SourcesKept
    /\ \A n \in SimplifyScripts :
           runs[n] > 0 =>
               disk[OutputFile(n)] = SimplifyGeometries(given[SourcePath(n)], tolerance(n))

\* the source with the province codes standardised where the script
\* standardises them
Standardised(n, df) == IF n = "Simplify Shapefile.py" THEN replace(df) ELSE df

\* C15 as the code has it: Simplify Shapefile.py writes the simplified
\* source with its PREABBR codes standardised
C15_OutputIsSimplificationRecoded ==
    /\ SourcesKept
    /\ \A n \in SimplifyScripts :
           runs[n] > 0 =>
               disk[OutputFile(n)]
                   = SimplifyGeometries(Standardised(n, given[SourcePath(n)]), tolerance(n))

\* Simplify Polygons.py has run twice over an output left by an earlier
\* version; the dented square lost its dent, the output is not the source
C15_Witness ==
    /\ runs["Simplify Polygons.py"] = 2
    /\ script.pc = "idle"
    /\ given[OutputFile("Simplify Polygons.py")] # Missing
    /\ given[SourcePath("Simplify Polygons.py")][1].geometry = Dented
    /\ disk[OutputFile("Simplify Polygons.py")][1].geometry = Square
    /\ disk[OutputFile("Simplify Polygons.py")] # disk[SourcePath("Simplify Polygons.py")]

(***************************************************************************)
(* C17.  In the scripts that print a coordinate report, for every named    *)
(* province the coordinate printed in the report equals the coordinate at  *)
(* which its label is drawn in every panel, for all per_province and       *)
(* manual-offset tables.                                                   *)
(***************************************************************************)
\* the lines of the report that name acr
LinesOf(acr) == {k \in 1..Len(printed) : printed[k].acr = acr}

\* as claimed: the printed numbers are the drawn coordinate itself
C17_ReportEqualsDrawn ==
    args.variant \in ReportVariants =>
        \A il \in DrawnLabels :
            /\ Cardinality(LinesOf(LabelAt(il).acr)) = 1
            /\ \A k \in LinesOf(LabelAt(il).acr) :
                   /\ printed[k].x * (Unit \div 100) = LabelAt(il).p[1].v
                   /\ printed[k].y * (Unit \div 100) = LabelAt(il).p[2].v

\* C17 as the code has it: the report prints two decimals, so the printed
\* numbers lie within half a hundredth of the drawn coordinate
C17_ReportRoundsDrawn ==
    args.variant \in ReportVariants =>
        \A il \in DrawnLabels :
            /\ Cardinality(LinesOf(LabelAt(il).acr)) = 1
            /\ \A k \in LinesOf(LabelAt(il).acr) :
                   /\ 2 * Abs(printed[k].x * (Unit \div 100) - LabelAt(il).p[1].v) <= Unit \div 100
                   /\ 2 * Abs(printed[k].y * (Unit \div 100) - LabelAt(il).p[2].v) <= Unit \div 100

\* Ontario's label is drawn an eighth of a map unit beside its xy on all
\* four panels and reported at the hundredth next to it
C17_Witness ==
    /\ pc = "done"
    /\ args.variant = 2
    /\ Stored("ON", "xy") = GoodXY
    /\ Stored("ON", "label_offset") = FineOffset
    /\ \A i \in 1..4 : \E n \in 1..Len(axes[i].labels) :
           /\ axes[i].labels[n].acr = "ON"
           /\ axes[i].labels[n].p = Plus(GoodXY.e, FineOffset.e)
    /\ \E k \in LinesOf("ON") :
           /\ printed[k].x * (Unit \div 100) # GoodXY.e[1].v + FineOffset.e[1].v
           /\ printed[k].x = 100 * (GoodXY.e[1].v \div Unit) + 12

(***************************************************************************)
(* C18.  In every script variant the acronym the lookup table gives to     *)
(* Prince Edward Island is a member of that variant's Atlantic set and     *)
(* matches the branch with the 1.5 multiplier: with no override its label  *)
(* is placed by the Atlantic heuristic, not at its centroid and not with   *)
(* New Brunswick's multiplier.                                             *)
(***************************************************************************)
\* the acronym the lookup table of the running variant gives the island
IslandAcronym == province_acronyms(args.variant, NamePE)

\* the island's centroid moved by the horizontal offset and by 1.5 times
\* the vertical offset
IslandPoint ==
    << Num(RowOf(IslandAcronym).cx + (XSpan * args.atlantic_offset_x_frac) \div FracDen),
       Num(RowOf(IslandAcronym).cy
           + (3 * ((YSpan * args.atlantic_offset_y_frac) \div FracDen)) \div 2) >>

C18_IslandInAtlanticSet ==
    /\ pc # "idle" => IslandAcronym \in atlantic_set(args.variant)
    /\ \A il \in DrawnLabels :
           (/\ LabelAt(il).acr = IslandAcronym
            /\ NotValid(Stored(IslandAcronym, "xy"))
            /\ NotValid(StoredManual(IslandAcronym))
            /\ NotValid(Stored(IslandAcronym, "label_offset")))
               => LabelAt(il).p = IslandPoint

\* the same in the variants whose Atlantic set holds the lookup table's acronym
C18_IslandWhereNamed ==
    args.variant \in {1, 2, 5, 6} => C18_IslandInAtlanticSet

(***************************************************************************)
(* C19.  In plot_1x2_panels the bold legend rows are exactly the rows of   *)
(* the heading (is_subtitle) entries: every heading entry yields one bold  *)
(* row without a swatch, no coloured row and no spacer row is bold,        *)
(* whatever the order of headings and entries, duplicates and the spacer   *)
(* before "Some Activities" included; a heading entry gives no province a  *)
(* fill colour, a line style or a text colour.                             *)
(***************************************************************************)
\* the heading entries of the legend table of axes i, in table order
Headings(i) == SelectSeq(LegendOf(i), LAMBDA e : e.is_subtitle)

\* the bold rows of the legend of axes i, in row order
BoldRows(i) == SelectSeq(axes[i].legend, LAMBDA h : h.bold)

\* the invisible row: the label ' ' on a patch without colour
Spacer == [label |-> Label("", 1), color |-> "none", style |-> "solid", bold |-> FALSE]

\* the entries of the table of axes i that are no headings and list acr
ListedRegular(i, acr) == {k \in RegularEntries(i) : acr \in LegendOf(i)[k].acronyms}

\* the text colour of an entry
TextColourOf(entry) == IF entry.text_color = "absent" THEN "black" ELSE entry.text_color

C19_BoldRowsAreHeadings ==
    args.variant = 5 =>
        \A i \in CompleteAxes :
            /\ Len(BoldRows(i)) = Len(Headings(i))
            /\ \A n \in 1..Len(BoldRows(i)) :
                   /\ Strip(BoldRows(i)[n].label) = Strip(Headings(i)[n].label)
                   /\ BoldRows(i)[n].color = "none"
            /\ \A n \in 1..Len(axes[i].legend) :
                   ~axes[i].legend[n].bold =>
                       \/ axes[i].legend[n] = Spacer
                       \/ \E k \in RegularEntries(i) :
                              /\ Strip(LegendOf(i)[k].label) = Strip(axes[i].legend[n].label)
                              /\ axes[i].legend[n].color = LegendOf(i)[k].color
            /\ \A r \in InSet(i) \cap NamedRows(args.variant, args.gdf) :
                   LET acr == Acronym(args.variant, args.gdf[r])
                   IN  IF ListedRegular(i, acr) = {}
                       THEN FillOf(i, r) = Neutral
                       ELSE \E k \in ListedRegular(i, acr) : FillOf(i, r) = StyleOf(LegendOf(i)[k])
            /\ \A n \in 1..Len(axes[i].labels) :
                   LET acr == axes[i].labels[n].acr
                   IN  IF ListedRegular(i, acr) = {}
                       THEN axes[i].labels[n].color = "black"
                       ELSE \E k \in ListedRegular(i, acr) :
                                axes[i].labels[n].color = TextColourOf(LegendOf(i)[k])

\* a heading named "Some Activities" that lists BC in red comes first, a
\* coloured entry of the same name and a second such heading follow: the
\* rows are spacer, bold, green, spacer, bold, and BC stays white
C19_Witness ==
    /\ pc = "done"
    /\ args.variant = 5
    /\ args.gdf = GdfMap
    /\ args.panel_legend_items = LegendsHeadings
    /\ Len(axes[1].legend) = 5
    /\ axes[1].legend[1] = Spacer
    /\ axes[1].legend[2].bold /\ axes[1].legend[2].color = "none"
    /\ ~axes[1].legend[3].bold /\ axes[1].legend[3].color = "#006400"
    /\ axes[1].legend[4] = Spacer
    /\ axes[1].legend[5].bold
    /\ \E r \in InSet(1) : /\ Acronym(5, args.gdf[r]) = "BC"
                           /\ FillOf(1, r) = Neutral

(***************************************************************************)
(* C20.  Rendering leaves its inputs unchanged: from the call to the       *)
(* return the dataset passed as gdf keeps its rows and columns             *)
(* (fill_color and edge_style exist on the per-panel copy only), and       *)
(* panel_definitions, per_province, atlantic_manual_offsets and            *)
(* panel_legend_items are not modified.                                    *)
(***************************************************************************)
C20_InputsUnchanged ==
    [][(pc # "idle" /\ pc' # "idle") =>
          /\ args'.gdf = args.gdf
          /\ args'.panel_definitions = args.panel_definitions
          /\ args'.per_province = args.per_province
          /\ args'.atlantic_manual_offsets = args.atlantic_manual_offsets
          /\ args'.panel_legend_items = args.panel_legend_items]_vars

\* all four panels are filled, one of them in colour, and the rows of gdf
\* carry the columns they were passed with
C20_Witness ==
    /\ pc = "done"
    /\ args.variant = 2
    /\ Len(axes) = 4
    /\ \E r \in RowIdx(args.gdf) : axes[1].fills[r].color \notin {"white", "none"}
    /\ args \in Calls
    /\ \A r \in RowIdx(args.gdf) : DOMAIN args.gdf[r] = {"name", "cx", "cy", "x0", "y0", "x1", "y1"}

(***************************************************************************)
(* C24.  When an acronym is listed in more than one legend entry of a      *)
(* panel, its fill colour, line style and label text colour are all taken  *)
(* from the last such entry in legend order (solid and black where that    *)
(* entry omits them), never mixed from different entries.                  *)
(***************************************************************************)
\* the entries of the table of axes i that list acr, headings included
ListedAny(i, acr) == {k \in 1..Len(LegendOf(i)) : acr \in LegendOf(i)[k].acronyms}

\* the labels of axes i that show acr
LabelsShowing(i, acr) == {n \in 1..Len(axes[i].labels) : axes[i].labels[n].acr = acr}

\* as claimed: fill, line style and text colour of the last entry that
\* lists the acronym
C24_LastEntryWins ==
    args.variant \in ReportVariants =>
        \A i \in 1..Len(axes) : \A r \in NamedRows(args.variant, args.gdf) :
            LET acr == Acronym(args.variant, args.gdf[r])
                last == LegendOf(i)[MaxOf(ListedAny(i, acr))]
            IN  Cardinality(ListedAny(i, acr)) > 1 =>
                    /\ FillOf(i, r) = StyleOf(last)
                    /\ \A n \in LabelsShowing(i, acr) :
                           axes[i].labels[n].color = TextColourOf(last)

\* C24 as the code has it: the text colour, and for a province of the
\* panel's set the fill and the line style, come from the last entry
\* that is no heading
C24_LastRegularEntryWins ==
    args.variant \in ReportVariants =>
        \A i \in 1..Len(axes) : \A r \in NamedRows(args.variant, args.gdf) :
            LET acr == Acronym(args.variant, args.gdf[r])
                last == LegendOf(i)[MaxOf(ListedRegular(i, acr))]
            IN  Cardinality(ListedRegular(i, acr)) > 1 =>
                    /\ r \in InSet(i) => FillOf(i, r) = StyleOf(last)
                    /\ \A n \in LabelsShowing(i, acr) :
                           axes[i].labels[n].color = TextColourOf(last)

\* BC is listed dark green, dashed, white and then light green without a
\* style or a text colour: it is filled light green, solid, and labelled black
C24_Witness ==
    /\ pc = "done"
    /\ args.variant = 2
    /\ args.gdf = GdfMap
    /\ args.panel_legend_items = LegendsMixed
    /\ Cardinality(ListedRegular(1, "BC")) = 2
    /\ \E r \in InSet(1) : /\ Acronym(2, args.gdf[r]) = "BC"
                           /\ FillOf(1, r) = [color |-> "#8FBC8F", style |-> "solid"]
    /\ \E n \in LabelsShowing(1, "BC") : axes[1].labels[n].color = "black"

(***************************************************************************)
(* C25.  In every panel the label of a province that is not in the panel's *)
(* acronym set, and is therefore filled with the neutral white, is black:  *)
(* a text colour of the legend is applied only to the provinces filled in  *)
(* that panel.                                                             *)
(***************************************************************************)
C25_OutsideSetBlack ==
    args.variant \in PanelVariants =>
        \A il \in DrawnLabels :
            LabelAt(il).acr \notin args.panel_definitions[il[1]].acronyms
                => LabelAt(il).color = "black"

\* the same in the scripts whose labels take no colour from the legend
C25_BlackWithoutTextColours ==
    args.variant \notin ReportVariants => C25_OutsideSetBlack

(***************************************************************************)
(* C26.  For pad >= 0 and north_extra >= 0 the padded extent contains the  *)
(* bounds it pads, the northward margin is added to the top edge only, and *)
(* the spans used for the padding are never zero: a degenerate span counts *)
(* as 1.0.                                                                 *)
(***************************************************************************)
\* the rows whose bounds are padded: the selected ones in the icon map,
\* all rows elsewhere
PaddedRows == IF args.variant = 6 THEN SelectedRows(args) ELSE RowIdx(args.gdf)

WestOf(S) == MinOf({args.gdf[r].x0 : r \in S})
EastOf(S) == MaxOf({args.gdf[r].x1 : r \in S})
SouthOf(S) == MinOf({args.gdf[r].y0 : r \in S})
NorthOf(S) == MaxOf({args.gdf[r].y1 : r \in S})

\* a span, 1.0 when it is degenerate
SpanOrOne(lo, hi) == IF hi = lo THEN Unit ELSE hi - lo

C26_PaddedExtent ==
    \A i \in CompleteAxes :
        LET S == PaddedRows
            xspan == SpanOrOne(WestOf(S), EastOf(S))
            yspan == SpanOrOne(SouthOf(S), NorthOf(S))
        IN  (args.pad >= 0 /\ args.north_extra >= 0) =>
                /\ axes[i].xlim[1] <= WestOf(S) /\ axes[i].xlim[2] >= EastOf(S)
                /\ axes[i].ylim[1] <= SouthOf(S) /\ axes[i].ylim[2] >= NorthOf(S)
                /\ WestOf(S) - axes[i].xlim[1] = (xspan * args.pad) \div FracDen
                /\ axes[i].xlim[2] - EastOf(S) = (xspan * args.pad) \div FracDen
                /\ SouthOf(S) - axes[i].ylim[1] = (yspan * args.pad) \div FracDen
                /\ axes[i].ylim[2] - NorthOf(S)
                       = (yspan * args.pad) \div FracDen + (yspan * args.north_extra) \div FracDen

\* the same in the panel functions, which replace a degenerate span
C26_PaddedExtentPanels == args.variant \in PanelVariants => C26_PaddedExtent

(***************************************************************************)
(* C27.  Within each panel the layers are strictly ordered: the outlines   *)
(* (z-order 1) below the fills (2) below the leader lines (4) below the    *)
(* label texts (5), for every province and every panel: no fill and no     *)
(* leader line lies over a label.                                          *)
(***************************************************************************)
C27_LayersOrdered ==
    \A i \in 1..Len(axes) :
        /\ axes[i].outline.zorder = 1
        /\ \A r \in DOMAIN axes[i].fills :
               /\ axes[i].fills[r].zorder = 2
               /\ axes[i].outline.zorder < axes[i].fills[r].zorder
               /\ \A n \in 1..Len(axes[i].labels) :
                      axes[i].fills[r].zorder < axes[i].labels[n].zorder
               /\ \A k \in 1..Len(axes[i].leaders) :
                      axes[i].fills[r].zorder < axes[i].leaders[k].zorder
        /\ \A k \in 1..Len(axes[i].leaders) :
               /\ axes[i].leaders[k].zorder = 4
               /\ \A n \in 1..Len(axes[i].labels) :
                      axes[i].leaders[k].zorder < axes[i].labels[n].zorder
        /\ \A n \in 1..Len(axes[i].labels) : axes[i].labels[n].zorder = 5

\* a panel with its outline, seven fills, six labels and a leader line
C27_Witness ==
    /\ pc = "done"
    /\ args.variant = 2
    /\ args.gdf = GdfMap
    /\ Len(axes) = 4
    /\ Len(axes[3].leaders) = 1
    /\ Len(axes[3].labels) = 6
    /\ DOMAIN axes[3].fills = 1..7
    /\ axes[3].outline.zorder < axes[3].fills[1].zorder
    /\ axes[3].leaders[1].zorder < axes[3].labels[1].zorder

(***************************************************************************)
(* C28.  In the plot_2x2_panels variants with per-panel legends the panel  *)
(* at index 3 never receives a legend, even when legend items are defined  *)
(* for it, while those items still determine its fill colours; the panels  *)
(* 0 to 2 receive a legend exactly when their legend items are not empty.  *)
(***************************************************************************)
C28_NoLegendOnLastPanel ==
    args.variant \in {2, 3} =>
        \A i \in CompleteAxes :
            /\ i = 4 => ~axes[i].legend_on /\ axes[i].legend = << >>
            /\ i < 4 => (axes[i].legend_on <=> Len(LegendOf(i)) > 0)
            /\ i < 4 => (Len(axes[i].legend) > 0 <=> Len(LegendOf(i)) > 0)
            /\ i = 4 =>
                   \A r \in InSet(i) \cap NamedRows(args.variant, args.gdf) :
                       LET acr == Acronym(args.variant, args.gdf[r])
                       IN  IF ListedAny(i, acr) = {} THEN FillOf(i, r) = Neutral
                           ELSE FillOf(i, r) = StyleOf(LegendOf(i)[MaxOf(ListedAny(i, acr))])

\* the fourth panel has one legend entry, dark green for BC, MB and ON:
\* BC is filled dark green there and the panel has no legend, the other
\* three have one
C28_Witness ==
    /\ pc = "done"
    /\ args.variant = 3
    /\ args.gdf = GdfMap
    /\ args.panel_legend_items = Legends2x2
    /\ Len(LegendOf(4)) = 1
    /\ ~axes[4].legend_on
    /\ \E r \in InSet(4) : /\ Acronym(3, args.gdf[r]) = "BC"
                           /\ axes[4].fills[r].color = "#006400"
    /\ \A i \in 1..3 : axes[i].legend_on /\ Len(axes[i].legend) > 0

(***************************************************************************)
(* C30.  validate_xy never raises: it returns True exactly when the value  *)
(* is a sized iterable of length 2 whose elements at index 0 and 1 are     *)
(* both convertible to float, and False for None, non-iterables, wrong     *)
(* lengths, non-indexable containers and non-numeric elements; every value *)
(* it accepts can then be unpacked into two numbers that support the       *)
(* addition of a numeric offset (no label fails with TypeError).           *)
(***************************************************************************)
\* the values the call stores under 'xy', 'label_offset', 'line_start' and
\* in atlantic_manual_offsets
StoredValues ==
    { Stored(acr, key) : acr \in DOMAIN args.per_province,
                         key \in {"xy", "label_offset", "line_start"} }
    \cup { StoredManual(acr) : acr \in DOMAIN args.atlantic_manual_offsets }

\* a sized, indexable container of two elements that float() converts
ConvertiblePair(val) ==
    val.k = "tuple" /\ Len(val.e) = 2 /\ FloatOk(val.e[1]) /\ FloatOk(val.e[2])

C30_ValidateXY ==
    pc # "idle" =>
        /\ \A val \in StoredValues :
              /\ validate_xy(args.variant, val) <=> ConvertiblePair(val)
              /\ validate_xy(args.variant, val) => NumericPair(val)
        /\ pc = "raised" => exc # "TypeError"

\* what the code does: the value is accepted exactly when it is a
\* convertible pair, or, where validate_xy unpacks instead of indexing, a
\* two-element set of convertible elements
C30_AcceptsConvertible ==
    pc # "idle" =>
        \A val \in StoredValues :
            validate_xy(args.variant, val)
                <=> \/ ConvertiblePair(val)
                    \/ /\ args.variant = 6
                       /\ val.k = "set" /\ Len(val.e) = 2
                       /\ FloatOk(val.e[1]) /\ FloatOk(val.e[2])

\* an accepted pair of numeric strings whose label raised TypeError when
\* the offset was added
C30_StringsAccepted ==
    /\ pc = "raised"
    /\ exc = "TypeError"
    /\ args.variant = 2
    /\ \E acr \in DOMAIN args.per_province :
          /\ Stored(acr, "xy") = NumericStrings
          /\ validate_xy(2, Stored(acr, "xy"))
          /\ Stored(acr, "label_offset") = GoodOffset

(***************************************************************************)
(* C21.  In Figures.py each of the three figures is rendered and saved     *)
(* only when its output file does not already exist: a figure file that    *)
(* exists when a run starts is never overwritten, and a figure that is     *)
(* missing is rendered and saved whether or not the other two exist.       *)
(***************************************************************************)
\* the run is past the block of the figure f
PastBlock(f) ==
    \/ figrun.pc = "done"
    \/ figrun.pc = "right" /\ f \in {REG_BODY_FIG, PROF_ASSOC_FIG}
    \/ figrun.pc = "prof" /\ f = REG_BODY_FIG

\* the files the run has printed as saved
SavedFigures == { figrun.saved[k] : k \in 1..Len(figrun.saved) }

C21_FiguresWrittenOnce ==
    \A f \in FigurePaths :
        /\ figrun.before[f] # NoFile =>
               /\ figfiles.file[f] = figrun.before[f]
               /\ f \notin SavedFigures
        /\ PastBlock(f) /\ figrun.before[f] = NoFile =>
               /\ figfiles.file[f] = PlotCategories(f, figrun.gdf)
               /\ f \in SavedFigures
        /\ f \in SavedFigures => figrun.before[f] = NoFile

\* the first and the third figure exist, left by a run on another
\* dataset: the run has drawn the second and left the other two as they
\* were
C21_Witness ==
    /\ figrun.pc = "done"
    /\ figrun.before[REG_BODY_FIG] # NoFile
    /\ figrun.before[PROF_ASSOC_FIG] = NoFile
    /\ figrun.before[RIGHT_TO_PRACTICE_FIG] # NoFile
    /\ figrun.saved = << PROF_ASSOC_FIG >>
    /\ figfiles.file[PROF_ASSOC_FIG] = PlotCategories(PROF_ASSOC_FIG, figrun.gdf)
    /\ figfiles.file[REG_BODY_FIG] = figrun.before[REG_BODY_FIG]
    /\ figfiles.file[REG_BODY_FIG] # PlotCategories(REG_BODY_FIG, figrun.gdf)
    /\ figfiles.file[RIGHT_TO_PRACTICE_FIG] # PlotCategories(RIGHT_TO_PRACTICE_FIG, figrun.gdf)

\* a second run finds the three figures of the first and draws nothing
C21_WitnessSecondRun ==
    /\ figrun.pc = "done"
    /\ figrun.n = 2
    /\ figrun.saved = << >>
    /\ \A f \in FigurePaths : figfiles.file[f] = PlotCategories(f, figrun.gdf)

(***************************************************************************)
(* C22.  The number that Simplify Shapefile.py prints as "Original         *)
(* vertices" is the vertex count of the dataset's geometries as loaded     *)
(* from the source file, before the simplification step replaces them.     *)
(***************************************************************************)
C22_OriginalVerticesAsLoaded ==
    \A k \in 1..Len(stdout) :
        stdout[k].text = "Original vertices" =>
            LET src == disk[SourcePath("Simplify Shapefile.py")]
            IN  stdout[k].n = VertexCount(src, Len(src))

\* what is printed: the vertex count of the dataset as written, after
\* the simplification
C22_PrintsSimplifiedCount ==
    \A k \in 1..Len(stdout) :
        stdout[k].text = "Original vertices" =>
            LET out == disk[OutputFile("Simplify Shapefile.py")]
            IN  stdout[k].n = VertexCount(out, Len(out))

\* a dataset of 11 vertices that the simplification brings to 10, and 10
\* is printed
C22_FewerPrinted ==
    /\ Len(stdout) = 2
    /\ stdout[1].text = "Original vertices"
    /\ LET src == disk[SourcePath("Simplify Shapefile.py")]
       IN  stdout[1].n < VertexCount(src, Len(src))

(***************************************************************************)
(* C23.  In plot_tetrahedron, extracting the edges from the four faces     *)
(* yields exactly the six distinct unordered vertex pairs of {A, B, C, D}, *)
(* each stored as (a, b) with a < b; the dashed and the solid segment      *)
(* lists partition these six edges, and the dashed edges are exactly the   *)
(* three edges incident to vertex D.                                       *)
(***************************************************************************)
SegmentsIn(list) == { list[k] : k \in 1..Len(list) }

SegmentOf(ab) == << verts[ab[1]], verts[ab[2]] >>

RowsListed(raw, provinces) ==
    { r \in 1..Len(raw) : mapping(raw[r].PREABBR) \in provinces }

C29_AssignColors ==
    \A f \in SavedFigures :
        \A k \in 1..Len(categories(f)) :
            LET colors == figfiles.file[f][k].colors
                raw == disk[shapefile_path]
                listed == RowsListed(raw, categories(f)[k].provinces)
            IN  /\ DOMAIN colors = 1..Len(raw)
                /\ \A r \in 1..Len(raw) : colors[r] \in {color_active, color_inactive}
                /\ { r \in 1..Len(raw) : colors[r] = color_active } = listed
                /\ { r \in 1..Len(raw) : colors[r] = color_inactive } = (1..Len(raw)) \ listed

\* the second figure drawn from a dataset that writes P.E.I. and has no
\* row for Newfoundland: the island is coloured in the first panel and not
\* in the fourth, and the three listed rows are the only coloured ones
C29_Witness ==
    /\ figrun.pc = "done"
    /\ PROF_ASSOC_FIG \in SavedFigures
    /\ LET raw == disk[shapefile_path]
           panels == figfiles.file[PROF_ASSOC_FIG]
       IN  /\ Len(raw) = 4
           /\ raw[3].PREABBR = "P.E.I."
           /\ \A r \in 1..Len(raw) : mapping(raw[r].PREABBR) # "NL"
           /\ panels[1].colors[3] = color_active
           /\ panels[4].colors[3] = color_inactive
           /\ panels[3].colors = << color_active, color_active, color_inactive, color_inactive >>

====
